---- MODULE Spec2Model ----
(***************************************************************************)
(* promptv: the file-backed versioned prompt store (PromptManager) and its *)
(* tag registry / reference resolver (TagManager).                         *)
(*                                                                         *)
(* The disk below prompts_dir is modelled as a set of directories and a    *)
(* map from file paths to documents.  Text is a sequence of one-character  *)
(* strings, so that the text-mode file round trip and int() parsing are    *)
(* computed, not assumed.                                                  *)
(***************************************************************************)
EXTENDS Integers, Sequences, FiniteSets, TLC

VARIABLES disk, clock, committed, ret, nops, race, client

vars == <<disk, clock, committed, ret, nops, race, client>>

-----------------------------------------------------------------------------
(* Bounds of the model *)

MaxOps == 1

MaxSeed == 2

MaxClock == 1

-----------------------------------------------------------------------------
(* Text *)

CR == "\r"
LF == "\n"

Latest == <<"l", "a", "t", "e", "s", "t">>
Prod == <<"p", "r", "o", "d">>
Staging == <<"s", "t", "a", "g", "i", "n", "g">>

Whitespace == {" ", "\t", LF, CR, "\f"}

Digits == {"0", "1", "2", "3", "4", "5", "6", "7", "8", "9"}

DigitValue(c) ==
    CASE c = "0" -> 0 [] c = "1" -> 1 [] c = "2" -> 2 [] c = "3" -> 3
      [] c = "4" -> 4 [] c = "5" -> 5 [] c = "6" -> 6 [] c = "7" -> 7
      [] c = "8" -> 8 [] c = "9" -> 9

RECURSIVE LStrip(_)
LStrip(s) ==
    IF s # <<>> /\ Head(s) \in Whitespace THEN LStrip(Tail(s)) ELSE s

RECURSIVE RStrip(_)
RStrip(s) ==
    IF s # <<>> /\ s[Len(s)] \in Whitespace
    THEN RStrip(SubSeq(s, 1, Len(s) - 1))
    ELSE s

RECURSIVE DigitsValue(_, _)
DigitsValue(s, acc) ==
    IF s = <<>> THEN acc
    ELSE IF Head(s) = "_" THEN DigitsValue(Tail(s), acc)
    ELSE DigitsValue(Tail(s), 10 * acc + DigitValue(Head(s)))

(* Python int(str): surrounding whitespace is stripped, one optional sign, *)
(* then decimal digits, single underscores allowed between digits.         *)
WellFormedDigits(s) ==
    /\ s # <<>>
    /\ \A i \in 1..Len(s) : s[i] \in Digits \cup {"_"}
    /\ s[1] \in Digits
    /\ s[Len(s)] \in Digits
    /\ \A i \in 1..(Len(s) - 1) : ~(s[i] = "_" /\ s[i + 1] = "_")

ParseInt(ref) ==
    LET t == RStrip(LStrip(ref))
        signed == t # <<>> /\ Head(t) \in {"+", "-"}
        body == IF signed THEN Tail(t) ELSE t
    IN  IF WellFormedDigits(body)
        THEN [ok |-> TRUE,
              val |-> IF signed /\ Head(t) = "-"
                      THEN 0 - DigitsValue(body, 0)
                      ELSE DigitsValue(body, 0)]
        ELSE [ok |-> FALSE, val |-> 0]

(* open(path, 'w').write(text): "\n" becomes os.linesep (POSIX: "\n"). *)
LineSep == <<LF>>

RECURSIVE WriteText(_)
WriteText(s) ==
    IF s = <<>> THEN <<>>
    ELSE IF Head(s) = LF THEN LineSep \o WriteText(Tail(s))
    ELSE <<Head(s)>> \o WriteText(Tail(s))

(* open(path, 'r').read(): universal newlines, "\r\n" and "\r" read as "\n". *)
RECURSIVE ReadText(_)
ReadText(s) ==
    IF s = <<>> THEN <<>>
    ELSE IF Head(s) = CR
         THEN IF Len(s) >= 2 /\ s[2] = LF
              THEN <<LF>> \o ReadText(Tail(Tail(s)))
              ELSE <<LF>> \o ReadText(Tail(s))
    ELSE <<Head(s)>> \o ReadText(Tail(s))

-----------------------------------------------------------------------------
(* Inputs *)

NoProject == ""

Names == {"greet"}

Projects == {NoProject, "greet"}

Contents == {<<"h">>, <<"a", CR>>}

Messages == {"None"}

TagNames == {Prod, <<"2">>, Latest}

Refs == {Latest, Prod, Staging, <<"0">>, <<"1">>, <<"2">>, <<" ", "2">>, <<"3">>}

VersionRefs == {Latest, Prod, <<"1">>, <<"2">>, <<" ", "2">>, <<"3">>}

TagVersions == {0, 2}

MaxVersions == {0, 2}

Descriptions == {"None", "live"}

NameLists == {<<n>> : n \in Names} \cup {<<n, m>> : n \in Names, m \in Names}

Locations == Names \X Projects

SeedName == "greet"

-----------------------------------------------------------------------------
(* Disk *)

IsPrefix(p, q) == Len(p) <= Len(q) /\ SubSeq(q, 1, Len(p)) = p

PathExists(d, path) == path \in d.dirs \/ path \in DOMAIN d.files

(* Path.mkdir(parents=True, exist_ok=True) *)
Mkdir(d, path) ==
    [d EXCEPT !.dirs = @ \cup {SubSeq(path, 1, i) : i \in 1..Len(path)}]

WriteFile(d, path, doc) ==
    [d EXCEPT !.files = [p \in (DOMAIN @) \cup {path} |->
                            IF p = path THEN doc ELSE @[p]]]

(* shutil.rmtree(path) *)
RmTree(d, path) ==
    [dirs |-> {p \in d.dirs : ~IsPrefix(path, p)},
     files |-> [p \in {q \in DOMAIN d.files : ~IsPrefix(path, q)} |-> d.files[p]]]

Isoformat(t) == [iso |-> t]

Fromisoformat(s) == s.iso

Ok(v) == [status |-> "ok", value |-> v]

Raise(e) == [status |-> "raise", value |-> e]

(* Python None as a return value *)
None == [status |-> "none", value |-> <<>>]

-----------------------------------------------------------------------------
(* PromptManager (manager.py) *)

GetPromptDir(name, project) ==
    IF project # NoProject THEN <<project, name>> ELSE <<name>>

GetMetadataFile(name, project) == GetPromptDir(name, project) \o <<"metadata.json">>

VersionFileName(version) == "v" \o ToString(version) \o ".md"

(* The fields of VersionMetadata and PromptMetadata carried here are the   *)
(* ones the store reads back: version, timestamp, source_file, file_path,  *)
(* message; name, versions, current_version, created_at, updated_at.       *)
DumpVersion(v) == [v EXCEPT !.timestamp = Isoformat(@)]

ParseVersion(v) == [v EXCEPT !.timestamp = Fromisoformat(@)]

DumpMetadata(metadata) ==
    [kind |-> "metadata",
     name |-> metadata.name,
     versions |-> [i \in 1..Len(metadata.versions) |-> DumpVersion(metadata.versions[i])],
     current_version |-> metadata.current_version,
     created_at |-> Isoformat(metadata.created_at),
     updated_at |-> Isoformat(metadata.updated_at)]

ParseMetadata(data) ==
    [name |-> data.name,
     versions |-> [i \in 1..Len(data.versions) |-> ParseVersion(data.versions[i])],
     current_version |-> data.current_version,
     created_at |-> Fromisoformat(data.created_at),
     updated_at |-> Fromisoformat(data.updated_at)]

(* A document on disk is tagged by what json.load and the pydantic model   *)
(* make of it: "metadata" (versions and current_version, validates as      *)
(* PromptMetadata), "legacy" (versions and no current_version), "tags"     *)
(* (validates as TagRegistry), "text" (a version's content), and "garbage" *)
(* for a file that fails to parse or to validate.                          *)
Garbage == [kind |-> "garbage"]

MigratedVersions(old_data) ==
    [i \in 1..Len(old_data.versions) |->
        [version |-> old_data.versions[i].version,
         timestamp |-> Fromisoformat(old_data.versions[i].timestamp),
         source_file |-> old_data.versions[i].source_file,
         file_path |-> old_data.versions[i].file_path,
         message |-> "None"]]

MigrateMetadataCount(name, old_data, now) ==
    LET versions == MigratedVersions(old_data)
    IN  [name |-> name,
         versions |-> versions,
         current_version |-> Len(versions),
         created_at |-> IF versions # <<>> THEN versions[1].timestamp ELSE now,
         updated_at |-> now]

MigrateMetadata(name, old_data, now) ==
    LET versions == MigratedVersions(old_data)
        numbers == {versions[i].version : i \in 1..Len(versions)}
    IN  [name |-> name,
         versions |-> versions,
         current_version |-> IF numbers = {} THEN 0
                             ELSE CHOOSE m \in numbers : \A n \in numbers : n <= m,
         created_at |-> IF versions # <<>> THEN versions[1].timestamp ELSE now,
         updated_at |-> now]

LoadMetadata(d, name, project, now) ==
    LET metadata_file == GetMetadataFile(name, project)
    IN  IF metadata_file \notin DOMAIN d.files
        THEN Ok([name |-> name, versions |-> <<>>, current_version |-> 0,
                 created_at |-> now, updated_at |-> now])
        ELSE IF d.files[metadata_file].kind = "legacy"
             THEN Ok(MigrateMetadata(name, d.files[metadata_file], now))
        ELSE IF d.files[metadata_file].kind = "metadata"
             THEN Ok(ParseMetadata(d.files[metadata_file]))
             ELSE Raise("MetadataCorruptedError")

SaveMetadataAlone(d, metadata, project) ==
    LET metadata_file == GetMetadataFile(metadata.name, project)
        prompt_dir == SubSeq(metadata_file, 1, Len(metadata_file) - 1)
        d1 == WriteFile(Mkdir(d, prompt_dir), metadata_file, DumpMetadata(metadata))
    IN  [d1 EXCEPT !.files = [q \in (DOMAIN @) \ {prompt_dir \o <<"tags.json">>} |-> @[q]]]

SaveMetadata(d, metadata, project) ==
    LET metadata_file == GetMetadataFile(metadata.name, project)
    IN  WriteFile(Mkdir(d, SubSeq(metadata_file, 1, Len(metadata_file) - 1)),
                  metadata_file, DumpMetadata(metadata))

(* str.split(): the words of a text, separated by runs of whitespace *)
RECURSIVE CountWords(_, _)
CountWords(s, inWord) ==
    IF s = <<>> THEN 0
    ELSE IF Head(s) \in Whitespace THEN CountWords(Tail(s), FALSE)
    ELSE (IF inWord THEN 0 ELSE 1) + CountWords(Tail(s), TRUE)

(* int(len(words) * 1.3) *)
FallbackCount(content) == (13 * CountWords(content, FALSE)) \div 10

(* estimate: what CostEstimator.count_tokens does for the content, the     *)
(* number of tokens of its encoding or TokenizationError/UnknownModelError *)
CountTokensUncaught(content, estimate) == estimate

CountTokens(content, estimate) ==
    IF estimate.status = "raise" THEN Ok(FallbackCount(content)) ELSE estimate

(* manager.py 297-301 and 359-363 *)
AppendVersionStale(metadata, version_info, now) ==
    [metadata EXCEPT !.versions = Append(@, version_info),
                     !.updated_at = now,
                     !.created_at = IF version_info.version = 1 THEN now ELSE @]

AppendVersion(metadata, version_info, now) ==
    [metadata EXCEPT !.versions = Append(@, version_info),
                     !.current_version = version_info.version,
                     !.updated_at = now,
                     !.created_at = IF version_info.version = 1 THEN now ELSE @]

(* The body shared by commit_prompt (267-309) and set_prompt (325-371). *)
StoreVersion(d, name, content, source_file, message, project, estimate, loadNow, now) ==
    LET loaded == LoadMetadata(d, name, project, loadNow)
        metadata == loaded.value
        version == metadata.current_version + 1
        prompt_dir == GetPromptDir(name, project)
        prompt_file == prompt_dir \o <<VersionFileName(version)>>
        d1 == WriteFile(Mkdir(d, prompt_dir), prompt_file,
                        [kind |-> "text", data |-> WriteText(content)])
        token_count == CountTokens(content, estimate)
        version_info == [version |-> version, timestamp |-> now,
                         source_file |-> source_file, file_path |-> prompt_file,
                         message |-> message, token_count |-> token_count.value]
    IN  IF loaded.status = "raise"
        THEN [disk |-> d, result |-> loaded]
        ELSE IF token_count.status = "raise"
        THEN [disk |-> d1, result |-> token_count]
        ELSE [disk |-> SaveMetadata(d1, AppendVersion(metadata, version_info, now), project),
              result |-> Ok([name |-> name, version |-> version, file_path |-> prompt_file])]

(* A commit whose process stops after line 340 (284 in commit_prompt): the *)
(* content file is written and closed, the metadata is not saved.          *)
StoreVersionStopped(d, name, content, project, loadNow) ==
    LET loaded == LoadMetadata(d, name, project, loadNow)
        version == loaded.value.current_version + 1
        prompt_dir == GetPromptDir(name, project)
        prompt_file == prompt_dir \o <<VersionFileName(version)>>
    IN  IF loaded.status = "raise"
        THEN [disk |-> d, result |-> loaded]
        ELSE [disk |-> WriteFile(Mkdir(d, prompt_dir), prompt_file,
                                 [kind |-> "text", data |-> WriteText(content)]),
              result |-> Ok([name |-> name, version |-> version,
                             file_path |-> prompt_file])]

SetPrompt(d, name, content, message, project, estimate, loadNow, now) ==
    StoreVersion(d, name, content, "None", message, project, estimate, loadNow, now)

(* source: [path, exists, data], the file the caller names *)
CommitPrompt(d, source, name, message, project, estimate, loadNow, now) ==
    IF ~source.exists
    THEN [disk |-> d, result |-> Raise("FileNotFoundError")]
    ELSE StoreVersion(d, name, ReadText(source.data), source.path, message,
                      project, estimate, loadNow, now)

FindVersionOrLast(versions, version_num) ==
    LET hits == {i \in 1..Len(versions) : versions[i].version = version_num}
    IN  IF hits = {} THEN Ok(versions[Len(versions)])
        ELSE Ok(versions[CHOOSE i \in hits : \A j \in hits : i <= j])

FindVersion(versions, version_num) ==
    LET hits == {i \in 1..Len(versions) : versions[i].version = version_num}
    IN  IF hits = {} THEN None
        ELSE Ok(versions[CHOOSE i \in hits : \A j \in hits : i <= j])

ReadVersionFile(d, name, version_meta) ==
    IF version_meta.file_path \in DOMAIN d.files
    THEN Ok([content |-> ReadText(d.files[version_meta.file_path].data),
             version_meta |-> version_meta])
    ELSE Raise("VersionNotFoundError")

GetPromptWithMetadataLenient(d, name, version, project, now) ==
    LET loaded == LoadMetadata(d, name, project, now)
        metadata == loaded.value
        parsed == ParseInt(version)
        version_meta == FindVersion(metadata.versions, parsed.val)
    IN  IF loaded.status = "raise" THEN loaded
        ELSE IF metadata.versions = <<>> THEN Raise("PromptNotFoundError")
        ELSE IF version = Latest \/ ~parsed.ok
             THEN ReadVersionFile(d, name, metadata.versions[Len(metadata.versions)])
        ELSE IF version_meta = None THEN Raise("VersionNotFoundError")
        ELSE ReadVersionFile(d, name, version_meta.value)

GetPromptWithMetadataByFile(d, name, version, project, now) ==
    LET loaded == LoadMetadata(d, name, project, now)
        metadata == loaded.value
        parsed == ParseInt(version)
        path == GetPromptDir(name, project) \o <<VersionFileName(parsed.val)>>
    IN  IF loaded.status = "raise" THEN loaded
        ELSE IF metadata.versions = <<>> THEN Raise("PromptNotFoundError")
        ELSE IF version = Latest
             THEN ReadVersionFile(d, name, metadata.versions[Len(metadata.versions)])
        ELSE IF ~parsed.ok THEN Raise("VersionNotFoundError")
        ELSE IF path \notin DOMAIN d.files THEN Raise("VersionNotFoundError")
        ELSE Ok([content |-> ReadText(d.files[path].data),
                 version_meta |-> metadata.versions[Len(metadata.versions)]])

GetPromptWithMetadata(d, name, version, project, now) ==
    LET loaded == LoadMetadata(d, name, project, now)
        metadata == loaded.value
        parsed == ParseInt(version)
        version_meta == FindVersion(metadata.versions, parsed.val)
    IN  IF loaded.status = "raise" THEN loaded
        ELSE IF metadata.versions = <<>> THEN Raise("PromptNotFoundError")
        ELSE IF version = Latest
             THEN ReadVersionFile(d, name, metadata.versions[Len(metadata.versions)])
        ELSE IF ~parsed.ok THEN Raise("VersionNotFoundError")
        ELSE IF version_meta = None THEN Raise("VersionNotFoundError")
        ELSE ReadVersionFile(d, name, version_meta.value)

GetPromptUncaught(d, name, version, project, now) ==
    LET r == GetPromptWithMetadata(d, name, version, project, now)
    IN  IF r.status = "ok" THEN Ok(r.value.content)
        ELSE IF r.value \in {"PromptNotFoundError"}
             THEN None
        ELSE r

GetPrompt(d, name, version, project, now) ==
    LET r == GetPromptWithMetadata(d, name, version, project, now)
    IN  IF r.status = "ok" THEN Ok(r.value.content)
        ELSE IF r.value \in {"PromptNotFoundError", "VersionNotFoundError"}
             THEN None
        ELSE r

RECURSIVE RemovePromptsSoft(_, _, _, _)
RemovePromptsSoft(d, names, project, results) ==
    IF names = <<>> THEN [disk |-> d, result |-> Ok(results)]
    ELSE LET name == Head(names)
             prompt_dir == GetPromptDir(name, project)
             found == PathExists(d, prompt_dir)
             results1 == [n \in (DOMAIN results) \cup {name} |->
                             IF n = name THEN found ELSE results[n]]
         IN  RemovePromptsSoft(IF found THEN RmTree(d, GetMetadataFile(name, project)) ELSE d,
                               Tail(names), project, results1)

RECURSIVE RemovePrompts(_, _, _, _)
RemovePrompts(d, names, project, results) ==
    IF names = <<>> THEN [disk |-> d, result |-> Ok(results)]
    ELSE LET name == Head(names)
             prompt_dir == GetPromptDir(name, project)
             found == PathExists(d, prompt_dir)
             results1 == [n \in (DOMAIN results) \cup {name} |->
                             IF n = name THEN found ELSE results[n]]
         IN  RemovePrompts(IF found THEN RmTree(d, prompt_dir) ELSE d,
                           Tail(names), project, results1)

(* The dictionary list_versions builds for one version: source_file and   *)
(* message are keys only when they are set.                                *)
ListedVersion(v) ==
    LET base == [version |-> v.version, timestamp |-> Isoformat(v.timestamp),
                 file_path |-> v.file_path]
    IN  CASE v.source_file # "None" /\ v.message # "None" ->
                [version |-> v.version, timestamp |-> Isoformat(v.timestamp),
                 file_path |-> v.file_path, source_file |-> v.source_file,
                 message |-> v.message]
          [] v.source_file # "None" /\ v.message = "None" ->
                [version |-> v.version, timestamp |-> Isoformat(v.timestamp),
                 file_path |-> v.file_path, source_file |-> v.source_file]
          [] v.source_file = "None" /\ v.message # "None" ->
                [version |-> v.version, timestamp |-> Isoformat(v.timestamp),
                 file_path |-> v.file_path, message |-> v.message]
          [] OTHER -> base

ListVersions(d, name, project, now) ==
    LET loaded == LoadMetadata(d, name, project, now)
        metadata == loaded.value
    IN  IF ~PathExists(d, GetPromptDir(name, project)) THEN None
        ELSE IF loaded.status = "raise" THEN None
        ELSE Ok([name |-> metadata.name,
                 versions |-> [i \in 1..Len(metadata.versions) |->
                                  ListedVersion(metadata.versions[i])]])

PromptExists(d, name, project) == PathExists(d, GetPromptDir(name, project))

-----------------------------------------------------------------------------
(* TagManager (tag_manager.py) *)

GetTagsFileFlat(prompt_name, project) == <<prompt_name, "tags.json">>

GetTagsFile(prompt_name, project) ==
    IF project # NoProject
    THEN <<project, prompt_name, "tags.json">>
    ELSE <<prompt_name, "tags.json">>

DumpTag(tag) ==
    [tag EXCEPT !.created_at = Isoformat(@), !.updated_at = Isoformat(@)]

ParseTag(tag) ==
    [tag EXCEPT !.created_at = Fromisoformat(@), !.updated_at = Fromisoformat(@)]

EmptyRegistry(prompt_name) == [prompt_name |-> prompt_name, tags |-> <<>>]

LoadTagsSalvage(d, prompt_name, project) ==
    LET tags_file == GetTagsFile(prompt_name, project)
    IN  IF tags_file \notin DOMAIN d.files
        THEN EmptyRegistry(prompt_name)
        ELSE IF d.files[tags_file].kind = "tags"
             THEN [prompt_name |-> d.files[tags_file].prompt_name,
                   tags |-> [t \in DOMAIN d.files[tags_file].tags |->
                                ParseTag(d.files[tags_file].tags[t])]]
             ELSE [prompt_name |-> prompt_name,
                   tags |-> [t \in {Prod} |->
                                [name |-> t, version |-> 1, created_at |-> 0,
                                 updated_at |-> 0, description |-> "None"]]]

LoadTags(d, prompt_name, project) ==
    LET tags_file == GetTagsFile(prompt_name, project)
    IN  IF tags_file \notin DOMAIN d.files
        THEN EmptyRegistry(prompt_name)
        ELSE IF d.files[tags_file].kind = "tags"
             THEN [prompt_name |-> d.files[tags_file].prompt_name,
                   tags |-> [t \in DOMAIN d.files[tags_file].tags |->
                                ParseTag(d.files[tags_file].tags[t])]]
             ELSE EmptyRegistry(prompt_name)

SaveTags(d, registry, project) ==
    LET tags_file == GetTagsFile(registry.prompt_name, project)
    IN  WriteFile(Mkdir(d, SubSeq(tags_file, 1, Len(tags_file) - 1)), tags_file,
                  [kind |-> "tags",
                   prompt_name |-> registry.prompt_name,
                   tags |-> [t \in DOMAIN registry.tags |-> DumpTag(registry.tags[t])]])

PutTag(registry, tag_name, tag) ==
    [registry EXCEPT !.tags = [t \in (DOMAIN @) \cup {tag_name} |->
                                  IF t = tag_name THEN tag ELSE @[t]]]

CreateTagUnchecked(d, prompt_name, tag_name, version, description, allow_update, project, now) ==
    LET registry == LoadTags(d, prompt_name, project)
        old == registry.tags[tag_name]
        tag == IF tag_name \in DOMAIN registry.tags
               THEN [old EXCEPT !.version = version,
                                !.updated_at = now,
                                !.description = IF description # "None"
                                                THEN description ELSE @]
               ELSE [name |-> tag_name, version |-> version, created_at |-> now,
                     updated_at |-> now, description |-> description]
    IN  IF tag_name \in DOMAIN registry.tags /\ ~allow_update
        THEN [disk |-> d, result |-> Raise("TagAlreadyExistsError")]
        ELSE [disk |-> SaveTags(d, PutTag(registry, tag_name, tag), project),
              result |-> Ok(tag)]

CreateTagRanged(d, prompt_name, tag_name, version, description, allow_update, project, now) ==
    LET registry == LoadTags(d, prompt_name, project)
        old == registry.tags[tag_name]
        tag == IF tag_name \in DOMAIN registry.tags
               THEN [old EXCEPT !.version = version,
                                !.updated_at = now,
                                !.description = IF description # "None"
                                                THEN description ELSE @]
               ELSE [name |-> tag_name, version |-> version, created_at |-> now,
                     updated_at |-> now, description |-> description]
    IN  IF ~PathExists(d, GetPromptDir(prompt_name, project))
        THEN [disk |-> d, result |-> Raise("PromptNotFoundError")]
        ELSE IF tag_name \in DOMAIN registry.tags /\ ~allow_update
        THEN [disk |-> d, result |-> Raise("TagAlreadyExistsError")]
        ELSE IF version < 1
        THEN [disk |-> d, result |-> Raise("ValueError")]
        ELSE [disk |-> SaveTags(d, PutTag(registry, tag_name, tag), project),
              result |-> Ok(tag)]

CreateTagForced(d, prompt_name, tag_name, version, description, allow_update, project, now) ==
    LET registry == LoadTags(d, prompt_name, project)
        old == registry.tags[tag_name]
        tag == IF tag_name \in DOMAIN registry.tags
               THEN [old EXCEPT !.version = version,
                                !.updated_at = now,
                                !.description = IF description # "None"
                                                THEN description ELSE @]
               ELSE [name |-> tag_name, version |-> version, created_at |-> now,
                     updated_at |-> now, description |-> description]
    IN  IF ~PathExists(d, GetPromptDir(prompt_name, project))
        THEN [disk |-> d, result |-> Raise("PromptNotFoundError")]
        ELSE [disk |-> SaveTags(d, PutTag(registry, tag_name, tag), project),
              result |-> Ok(tag)]

CreateTag(d, prompt_name, tag_name, version, description, allow_update, project, now) ==
    LET registry == LoadTags(d, prompt_name, project)
        old == registry.tags[tag_name]
        tag == IF tag_name \in DOMAIN registry.tags
               THEN [old EXCEPT !.version = version,
                                !.updated_at = now,
                                !.description = IF description # "None"
                                                THEN description ELSE @]
               ELSE [name |-> tag_name, version |-> version, created_at |-> now,
                     updated_at |-> now, description |-> description]
    IN  IF ~PathExists(d, GetPromptDir(prompt_name, project))
        THEN [disk |-> d, result |-> Raise("PromptNotFoundError")]
        ELSE IF tag_name \in DOMAIN registry.tags /\ ~allow_update
        THEN [disk |-> d, result |-> Raise("TagAlreadyExistsError")]
        ELSE [disk |-> SaveTags(d, PutTag(registry, tag_name, tag), project),
              result |-> Ok(tag)]

GetTag(d, prompt_name, tag_name, project) ==
    LET registry == LoadTags(d, prompt_name, project)
    IN  IF tag_name \in DOMAIN registry.tags THEN Ok(registry.tags[tag_name]) ELSE None

ListTags(d, prompt_name, project) == LoadTags(d, prompt_name, project).tags

DeleteTagAll(d, prompt_name, tag_name, project) ==
    LET registry == LoadTags(d, prompt_name, project)
        rest == [registry EXCEPT !.tags = <<>>]
    IN  IF tag_name \notin DOMAIN registry.tags
        THEN [disk |-> d, result |-> Raise("TagNotFoundError")]
        ELSE [disk |-> SaveTags(d, rest, project), result |-> Ok(TRUE)]

DeleteTag(d, prompt_name, tag_name, project) ==
    LET registry == LoadTags(d, prompt_name, project)
        rest == [registry EXCEPT !.tags = [t \in (DOMAIN @) \ {tag_name} |-> @[t]]]
    IN  IF tag_name \notin DOMAIN registry.tags
        THEN [disk |-> d, result |-> Raise("TagNotFoundError")]
        ELSE [disk |-> SaveTags(d, rest, project), result |-> Ok(TRUE)]

ResolveVersionTagFirst(d, prompt_name, ref, max_version, project) ==
    LET parsed == ParseInt(ref)
        tag == GetTag(d, prompt_name, ref, project)
    IN  IF tag # None THEN Ok(tag.value.version)
        ELSE IF ref = Latest THEN Ok(max_version)
        ELSE IF parsed.ok
             THEN IF 1 <= parsed.val /\ parsed.val <= max_version
                  THEN Ok(parsed.val)
                  ELSE Raise("ValueError")
        ELSE Raise("TagNotFoundError")

ResolveVersionInRange(d, prompt_name, ref, max_version, project) ==
    LET parsed == ParseInt(ref)
        tag == GetTag(d, prompt_name, ref, project)
    IN  IF ref = Latest THEN Ok(max_version)
        ELSE IF parsed.ok
             THEN IF 1 <= parsed.val /\ parsed.val <= max_version
                  THEN Ok(parsed.val)
                  ELSE Raise("ValueError")
        ELSE IF tag # None /\ tag.value.version <= max_version THEN Ok(tag.value.version)
        ELSE Raise("TagNotFoundError")

ResolveVersion(d, prompt_name, ref, max_version, project) ==
    LET parsed == ParseInt(ref)
        tag == GetTag(d, prompt_name, ref, project)
    IN  IF ref = Latest THEN Ok(max_version)
        ELSE IF parsed.ok
             THEN IF 1 <= parsed.val /\ parsed.val <= max_version
                  THEN Ok(parsed.val)
                  ELSE Raise("ValueError")
        ELSE IF tag # None THEN Ok(tag.value.version)
        ELSE Raise("TagNotFoundError")

-----------------------------------------------------------------------------
(* The get command of the CLI (cli.py), which resolves a label before it   *)
(* asks the store for the content.                                         *)

DigitChar(n) ==
    CASE n = 0 -> "0" [] n = 1 -> "1" [] n = 2 -> "2" [] n = 3 -> "3"
      [] n = 4 -> "4" [] n = 5 -> "5" [] n = 6 -> "6" [] n = 7 -> "7"
      [] n = 8 -> "8" [] n = 9 -> "9"

RECURSIVE NatStr(_)
NatStr(n) == IF n < 10 THEN <<DigitChar(n)>> ELSE NatStr(n \div 10) \o <<DigitChar(n % 10)>>

(* Python str(int) *)
Str(n) == IF n < 0 THEN <<"-">> \o NatStr(0 - n) ELSE NatStr(n)

NoOption == <<>>

CliGet(d, name, version, label, project, now) ==
    LET loaded == LoadMetadata(d, name, project, now)
        metadata == loaded.value
        resolved == ResolveVersion(d, name, label, metadata.current_version, project)
        version_ref == IF label # NoOption THEN Str(resolved.value)
                       ELSE IF version # NoOption THEN version
                       ELSE Latest
        content == GetPrompt(d, name, version_ref, project, now)
    IN  IF label # NoOption /\ version # NoOption THEN Raise("UsageError")
        ELSE IF label # NoOption /\ loaded.status = "raise" THEN loaded
        ELSE IF label # NoOption /\ metadata.versions = <<>>
             THEN Raise("PromptNotFoundError")
        ELSE IF label # NoOption /\ resolved.status = "raise" THEN resolved
        ELSE IF content = None THEN Raise("NotFound")
        ELSE content

-----------------------------------------------------------------------------
(* PromptClient (sdk/client.py) *)

(* The characters of a prompt name *)
Chars(name) ==
    CASE name = "greet" -> <<"g", "r", "e", "e", "t">>
      [] name = "greet:" -> <<"g", "r", "e", "e", "t", ":">>

(* variables: None or {} is the empty sequence, otherwise the items sorted *)
(* by key, each a pair of strings.                                         *)
NoVariables == <<>>

RECURSIVE ItemsStr(_)
ItemsStr(items) ==
    IF items = <<>> THEN <<>>
    ELSE <<"(", "'">> \o Head(items)[1] \o <<"'", ",", " ", "'">> \o Head(items)[2]
             \o <<"'", ")">>
             \o (IF Len(items) > 1 THEN <<",", " ">> ELSE <<>>)
             \o ItemsStr(Tail(items))

(* str(sorted(variables.items())) *)
VarStr(variables) ==
    IF variables = NoVariables THEN <<>> ELSE <<"[">> \o ItemsStr(variables) \o <<"]">>

(* version: <<>> for None, <<n>> for the integer n *)
VersionStr(version) == IF version = <<>> THEN <<>> ELSE Str(version[1])

(* The text that is hashed; the SHA-256 digest of it is taken to be        *)
(* different for different texts, so the key is the text itself.           *)
CacheKey(name, label, version, variables) ==
    Chars(name) \o <<":">> \o label \o <<":">> \o VersionStr(version)
        \o <<":">> \o VarStr(variables)

IsExpiredNever(cached, now) == FALSE

IsExpired(cached, now) == now > cached.cached_at + cached.ttl_seconds

(* The part of Jinja2 that the prompts here use: {{ name }} is replaced by *)
(* the value of the variable, an undefined name raises (StrictUndefined),  *)
(* and one newline at the end of the template is dropped.                  *)
Lookup(variables, key) ==
    LET hits == {i \in 1..Len(variables) : variables[i][1] = key}
    IN  IF hits = {} THEN Raise("UndefinedError")
        ELSE Ok(variables[CHOOSE i \in hits : TRUE][2])

(* The index of the first "}}" of s, 0 when there is none *)
CloseAt(s) ==
    LET hits == {i \in 1..(Len(s) - 1) : s[i] = "}" /\ s[i + 1] = "}"}
    IN  IF hits = {} THEN 0 ELSE CHOOSE i \in hits : \A j \in hits : i <= j

RECURSIVE RenderBody(_, _)
RenderBody(s, variables) ==
    IF s = <<>> THEN Ok(<<>>)
    ELSE IF Len(s) >= 2 /\ s[1] = "{" /\ s[2] = "{"
    THEN LET close == CloseAt(s)
             value == Lookup(variables, RStrip(LStrip(SubSeq(s, 3, close - 1))))
             rest == RenderBody(SubSeq(s, close + 2, Len(s)), variables)
         IN  IF close = 0 THEN Raise("TemplateSyntaxError")
             ELSE IF value.status = "raise" THEN value
             ELSE IF rest.status = "raise" THEN rest
             ELSE Ok(value.value \o rest.value)
    ELSE LET rest == RenderBody(Tail(s), variables)
         IN  IF rest.status = "raise" THEN rest ELSE Ok(<<Head(s)>> \o rest.value)

Render(template_str, variables) ==
    RenderBody(IF template_str # <<>> /\ template_str[Len(template_str)] = LF
               THEN SubSeq(template_str, 1, Len(template_str) - 1)
               ELSE template_str,
               variables)

Without(cache, key) == [k \in (DOMAIN cache) \ {key} |-> cache[k]]

Put(cache, key, entry) ==
    [k \in (DOMAIN cache) \cup {key} |-> IF k = key THEN entry ELSE cache[k]]

(* checked: the time is_expired reads; cached_at: the time read when the   *)
(* entry is made.                                                          *)
ClientGetPrompt(d, c, name, label, version, variables, use_cache, checked, cached_at) ==
    LET cache_key == CacheKey(name, label, version, variables)
        found == use_cache /\ cache_key \in DOMAIN c.cache
        hit == found /\ ~IsExpired(c.cache[cache_key], checked)
        cache1 == IF found THEN Without(c.cache, cache_key) ELSE c.cache
        loaded == LoadMetadata(d, name, NoProject, checked)
        metadata == loaded.value
        version_num == ResolveVersion(d, name, label, metadata.current_version, NoProject)
        version_ref == IF label # NoOption THEN Str(version_num.value)
                       ELSE IF version # <<>> THEN Str(version[1])
                       ELSE Latest
        content == GetPrompt(d, name, version_ref, NoProject, checked)
        rendered == IF variables # NoVariables
                    THEN Render(content.value, variables)
                    ELSE content
    IN  IF label # NoOption /\ version # <<>> /\ version # <<0>>
        THEN [cache |-> c.cache, result |-> Raise("ValueError")]
        ELSE IF hit
        THEN [cache |-> c.cache, result |-> Ok(c.cache[cache_key].content)]
        ELSE IF label # NoOption /\ loaded.status = "raise"
        THEN [cache |-> cache1, result |-> loaded]
        ELSE IF label # NoOption /\ metadata.versions = <<>>
        THEN [cache |-> cache1, result |-> Raise("PromptNotFoundError")]
        ELSE IF label # NoOption /\ version_num.status = "raise"
        THEN [cache |-> cache1, result |-> version_num]
        ELSE IF content = None
        THEN [cache |-> cache1, result |-> Raise("PromptNotFoundError")]
        ELSE IF content.status = "raise"
        THEN [cache |-> cache1, result |-> content]
        ELSE IF rendered.status = "raise"
        THEN [cache |-> cache1, result |-> rendered]
        ELSE [cache |-> IF use_cache
                        THEN Put(cache1, cache_key,
                                 [content |-> rendered.value, cached_at |-> cached_at,
                                  ttl_seconds |-> c.cache_ttl])
                        ELSE cache1,
              result |-> rendered]

-----------------------------------------------------------------------------
(* State *)

Sources ==
    {[path |-> "p.md", exists |-> TRUE, data |-> <<"a", CR>>],
     [path |-> "gone.md", exists |-> FALSE, data |-> <<>>]}

Queries ==
    {"get_prompt", "get_prompt_with_metadata", "list_versions", "prompt_exists",
     "get_tag", "list_tags", "resolve_version", "cli_get", "cli_diff"}

(* A query or a raised error ends a run: every operation below is guarded  *)
(* by Running.  Both leave the disk as it is, so a state that a run        *)
(* reaches after one is reached as well by the run without it.             *)
Running == ret.op = "init" \/ (ret.op \notin Queries /\ ret.result.status = "ok")

(* What the token counter does in a commit: it returns a count, or fails.  *)
(* SeedEstimate is the counter at work; the failures are in SpecCounter.   *)
Estimates == {Ok(2), Raise("TokenizationError"), Raise("UnknownModelError")}

SeedEstimate == Ok(1)

(* race: the calls that run at the same time in separate processes, and   *)
(* the order of their steps so far; empty when one caller runs alone.      *)
NoRace == [proc |-> <<>>, log |-> <<>>]

(* client: the PromptClient of the SDK, its cache and the time it reads;   *)
(* without entries where no client is at work.                             *)
NoClient == [cache |-> <<>>, cache_ttl |-> 300, now |-> 0, calls |-> 0]

(* MaxOps bounds the number of operations that change the disk. *)
Spend ==
    /\ nops' = IF disk' # disk THEN nops + 1 ELSE nops
    /\ nops' <= MaxOps

(* clock: the latest time written to the disk.  datetime.now() reads the   *)
(* wall clock, which is not strictly increasing: a reading can equal the   *)
(* one before.  Readings that go back are left out.                        *)
Nows == {t \in {clock, clock + 1} : t <= MaxClock}

EmptyDisk == [dirs |-> {}, files |-> <<>>]

(* The store is persistent: a PromptManager starts on whatever earlier     *)
(* runs left on disk.  Seeded(cs) is the disk after set_prompt was run     *)
(* once for each content of cs, in order, on the empty store.              *)
RECURSIVE Seeded(_)
Seeded(cs) ==
    IF cs = <<>> THEN EmptyDisk
    ELSE SetPrompt(Seeded(SubSeq(cs, 1, Len(cs) - 1)), SeedName, cs[Len(cs)],
                   "None", NoProject, SeedEstimate, 0, 0).disk

SeedContents ==
    {[i \in 1..k |-> IF i % 2 = 1 THEN <<"h">> ELSE <<"h", "i">>] : k \in 0..MaxSeed}

(* ... and, when tagged, after create_tag then pointed prod at version 1. *)
SeededTagged(cs, tagged) ==
    IF tagged
    THEN CreateTag(Seeded(cs), SeedName, Prod, 1, "None", FALSE, NoProject, 0).disk
    ELSE Seeded(cs)

Init ==
    /\ \E cs \in SeedContents, tagged \in BOOLEAN :
          /\ tagged => cs # <<>>
          /\ disk = SeededTagged(cs, tagged)
          /\ committed = [l \in Locations |->
                             IF l = <<SeedName, NoProject>> THEN cs ELSE <<>>]
    /\ clock = 0
    /\ ret = [op |-> "init", result |-> None]
    /\ nops = 0
    /\ race = NoRace
    /\ client = NoClient

(* committed: the contents passed to the successful commits of each        *)
(* (name, project) since its directory was last removed.                   *)
Forget(d) ==
    [l \in Locations |->
        IF PathExists(d, GetPromptDir(l[1], l[2])) THEN committed[l] ELSE <<>>]

set_prompt(name, content, message, project, estimate) ==
    /\ Running
    /\ \E now \in Nows :
         LET r == SetPrompt(disk, name, content, message, project, estimate, clock, now)
         IN  /\ disk' = r.disk
             /\ clock' = IF r.disk # disk THEN now ELSE clock
             /\ committed' = IF r.result.status = "ok"
                             THEN [committed EXCEPT ![<<name, project>>] = Append(@, content)]
                             ELSE committed
             /\ ret' = [op |-> "set_prompt", name |-> name, project |-> project,
                        content |-> content, estimate |-> estimate,
                        result |-> r.result]
    /\ Spend
    /\ UNCHANGED <<race, client>>

commit_prompt(source, name, message, project, estimate) ==
    /\ Running
    /\ \E now \in Nows :
         LET r == CommitPrompt(disk, source, name, message, project, estimate, clock, now)
         IN  /\ disk' = r.disk
             /\ clock' = IF r.disk # disk THEN now ELSE clock
             /\ committed' = IF r.result.status = "ok"
                             THEN [committed EXCEPT ![<<name, project>>] =
                                      Append(@, ReadText(source.data))]
                             ELSE committed
             /\ ret' = [op |-> "commit_prompt", name |-> name, project |-> project,
                        content |-> ReadText(source.data), estimate |-> estimate,
                        result |-> r.result]
    /\ Spend
    /\ UNCHANGED <<race, client>>

remove_prompts(names, project) ==
    /\ Running
    /\ LET r == RemovePrompts(disk, names, project, <<>>)
       IN  /\ disk' = r.disk
           /\ committed' = Forget(r.disk)
           /\ ret' = [op |-> "remove_prompts", names |-> names, project |-> project,
                      result |-> r.result]
    /\ Spend
    /\ UNCHANGED <<race, client>>
    /\ UNCHANGED clock

create_tag(prompt_name, tag_name, version, description, allow_update, project) ==
    /\ Running
    /\ \E now \in Nows :
         LET r == CreateTag(disk, prompt_name, tag_name, version, description,
                            allow_update, project, now)
         IN  /\ disk' = r.disk
             /\ clock' = IF r.disk # disk THEN now ELSE clock
             /\ ret' = [op |-> "create_tag", name |-> prompt_name, project |-> project,
                        tag |-> tag_name, version |-> version,
                        allow_update |-> allow_update, result |-> r.result]
    /\ Spend
    /\ UNCHANGED <<race, client>>
    /\ UNCHANGED committed

delete_tag(prompt_name, tag_name, project) ==
    /\ Running
    /\ LET r == DeleteTag(disk, prompt_name, tag_name, project)
       IN  /\ disk' = r.disk
           /\ ret' = [op |-> "delete_tag", name |-> prompt_name, project |-> project,
                      tag |-> tag_name, result |-> r.result]
    /\ Spend
    /\ UNCHANGED <<race, client>>
    /\ UNCHANGED <<clock, committed>>

get_prompt(name, version, project) ==
    /\ Running
    /\ ret' = [op |-> "get_prompt", name |-> name, project |-> project,
               ref |-> version, result |-> GetPrompt(disk, name, version, project, clock)]
    /\ UNCHANGED <<disk, clock, committed, nops, race, client>>

get_prompt_with_metadata(name, version, project) ==
    /\ Running
    /\ ret' = [op |-> "get_prompt_with_metadata", name |-> name, project |-> project,
               ref |-> version,
               result |-> GetPromptWithMetadata(disk, name, version, project, clock)]
    /\ UNCHANGED <<disk, clock, committed, nops, race, client>>

list_versions(name, project) ==
    /\ Running
    /\ ret' = [op |-> "list_versions", name |-> name, project |-> project,
               result |-> ListVersions(disk, name, project, clock)]
    /\ UNCHANGED <<disk, clock, committed, nops, race, client>>

prompt_exists(name, project) ==
    /\ Running
    /\ ret' = [op |-> "prompt_exists", name |-> name, project |-> project,
               result |-> Ok(PromptExists(disk, name, project))]
    /\ UNCHANGED <<disk, clock, committed, nops, race, client>>

get_tag(prompt_name, tag_name, project) ==
    /\ Running
    /\ ret' = [op |-> "get_tag", name |-> prompt_name, project |-> project,
               tag |-> tag_name, result |-> GetTag(disk, prompt_name, tag_name, project)]
    /\ UNCHANGED <<disk, clock, committed, nops, race, client>>

list_tags(prompt_name, project) ==
    /\ Running
    /\ ret' = [op |-> "list_tags", name |-> prompt_name, project |-> project,
               result |-> Ok(ListTags(disk, prompt_name, project))]
    /\ UNCHANGED <<disk, clock, committed, nops, race, client>>

resolve_version(prompt_name, ref, max_version, project) ==
    /\ Running
    /\ ret' = [op |-> "resolve_version", name |-> prompt_name, project |-> project,
               ref |-> ref, max_version |-> max_version,
               result |-> ResolveVersion(disk, prompt_name, ref, max_version, project)]
    /\ UNCHANGED <<disk, clock, committed, nops, race, client>>

cli_get(name, version, label, project) ==
    /\ Running
    /\ ret' = [op |-> "cli_get", name |-> name, project |-> project,
               version |-> version, label |-> label,
               result |-> CliGet(disk, name, version, label, project, clock)]
    /\ UNCHANGED <<disk, clock, committed, nops, race, client>>

Next ==
    \/ \E n \in Names, c \in Contents, m \in Messages, p \in Projects :
          set_prompt(n, c, m, p, SeedEstimate)
    \/ \E s \in Sources, n \in Names, m \in Messages, p \in Projects :
          commit_prompt(s, n, m, p, SeedEstimate)
    \/ \E ns \in NameLists, p \in Projects : remove_prompts(ns, p)
    \/ \E n \in Names, t \in TagNames, v \in TagVersions, ds \in Descriptions,
          a \in BOOLEAN, p \in Projects : create_tag(n, t, v, ds, a, p)
    \/ \E n \in Names, t \in TagNames, p \in Projects : delete_tag(n, t, p)
    \/ \E n \in Names, r \in VersionRefs, p \in Projects : get_prompt(n, r, p)
    \/ \E n \in Names, r \in VersionRefs, p \in Projects :
          get_prompt_with_metadata(n, r, p)
    \/ \E n \in Names, p \in Projects : list_versions(n, p)
    \/ \E n \in Names, p \in Projects : prompt_exists(n, p)
    \/ \E n \in Names, t \in TagNames, p \in Projects : get_tag(n, t, p)
    \/ \E n \in Names, p \in Projects : list_tags(n, p)
    \/ \E n \in Names, r \in Refs, mv \in MaxVersions, p \in Projects :
          resolve_version(n, r, mv, p)
    \/ \E n \in Names, v \in {NoOption, <<"1">>}, l \in {NoOption} \cup TagNames,
          p \in Projects : cli_get(n, v, l, p)

Spec == Init /\ [][Next]_vars

-----------------------------------------------------------------------------
(* A store where the prompt exists both outside a project and in a         *)
(* project, with tags in one or both scopes: two versions of greet and the *)
(* tag prod -> 1 outside a project, one version of greet in the project    *)
(* greet; optionally a second tag 2 -> 2 outside, and prod -> 2 inside.    *)
SeedProject == "greet"

SeededScopes(second, inside) ==
    LET d0 == Seeded(<<<<"h">>, <<"h", "i">>>>)
        d1 == SetPrompt(d0, SeedName, <<"h">>, "None", SeedProject, SeedEstimate, 0, 0).disk
        d2 == CreateTag(d1, SeedName, Prod, 1, "None", FALSE, NoProject, 0).disk
        d3 == IF second
              THEN CreateTag(d2, SeedName, <<"2">>, 2, "live", FALSE, NoProject, 0).disk
              ELSE d2
    IN  IF inside
        THEN CreateTag(d3, SeedName, Prod, 2, "None", FALSE, SeedProject, 0).disk
        ELSE d3

InitScoped ==
    /\ \E second \in BOOLEAN, inside \in BOOLEAN : disk = SeededScopes(second, inside)
    /\ committed = [l \in Locations |->
                       IF l = <<SeedName, NoProject>> THEN <<<<"h">>, <<"h", "i">>>>
                       ELSE IF l = <<SeedName, SeedProject>> THEN <<<<"h">>>>
                       ELSE <<>>]
    /\ clock = 0
    /\ ret = [op |-> "init", result |-> None]
    /\ nops = 0
    /\ race = NoRace
    /\ client = NoClient

SpecScoped == InitScoped /\ [][Next]_vars

-----------------------------------------------------------------------------
(* A store holding documents the program did not write in their present    *)
(* form: a metadata or tag document that fails to parse, or a metadata     *)
(* document in the legacy format (a version list and no current_version).  *)
TwoVersions == <<<<"h">>, <<"h", "i">>>>

CorruptTags ==
    WriteFile(SeededTagged(TwoVersions, TRUE), GetTagsFile(SeedName, NoProject), Garbage)

CorruptMetadata ==
    WriteFile(SeededTagged(TwoVersions, TRUE), GetMetadataFile(SeedName, NoProject), Garbage)

LegacyNumbers == {<<>>, <<1, 2>>, <<1, 3>>}

LegacyVersion(n, ts) ==
    [version |-> n, timestamp |-> Isoformat(ts), source_file |-> "None",
     file_path |-> GetPromptDir(SeedName, NoProject) \o <<VersionFileName(n)>>]

LegacyDisk(ns) ==
    LET metadata_file == GetMetadataFile(SeedName, NoProject)
        doc == [kind |-> "legacy",
                versions |-> [i \in 1..Len(ns) |->
                                 LegacyVersion(ns[i], IF i = 1 THEN 0 ELSE 1)]]
        paths == {metadata_file}
                     \cup {LegacyVersion(ns[i], 0).file_path : i \in 1..Len(ns)}
    IN  [dirs |-> {GetPromptDir(SeedName, NoProject)},
         files |-> [q \in paths |->
                       IF q = metadata_file THEN doc
                       ELSE [kind |-> "text", data |-> <<"h">>]]]

InitDocs ==
    /\ \/ /\ disk \in {CorruptTags, CorruptMetadata}
          /\ committed = [l \in Locations |->
                             IF l = <<SeedName, NoProject>> THEN TwoVersions ELSE <<>>]
          /\ clock = 0
       \/ \E ns \in LegacyNumbers :
             /\ disk = LegacyDisk(ns)
             /\ committed = [l \in Locations |->
                                IF l = <<SeedName, NoProject>>
                                THEN [i \in 1..Len(ns) |-> <<"h">>] ELSE <<>>]
             /\ clock = IF Len(ns) > 1 THEN 1 ELSE 0
    /\ ret = [op |-> "init", result |-> None]
    /\ nops = 0
    /\ race = NoRace
    /\ client = NoClient

SpecDocs == InitDocs /\ [][Next]_vars

-----------------------------------------------------------------------------
(* Two processes on one store.  A save is open(path, 'w'), which truncates *)
(* the file, and then one write at offset 0 when the file is closed        *)
(* (json.dump fills the buffer; the documents here are far below its       *)
(* size).  Each process has its own file offset, so a write that lands on  *)
(* a longer file written meanwhile by the other process replaces only the  *)
(* first bytes of it.                                                      *)

(* Sizes in characters of what json.dump(data, f, indent=2) writes, with   *)
(* isoformat() timestamps of 26 characters.                                *)
StringSize(s) ==
    CASE s = "greet" -> 5 [] s = "p.md" -> 4 [] s = "gone.md" -> 7 [] s = "live" -> 4

(* null, or the string in quotes *)
JsonSize(s) == IF s = "None" THEN 4 ELSE StringSize(s) + 2

RECURSIVE DirSize(_)
DirSize(path) ==
    IF path = <<>> THEN 0 ELSE 1 + StringSize(Head(path)) + DirSize(Tail(path))

(* str(prompt_file): prompts_dir (~/.promptv/prompts with the home /root), *)
(* the prompt directory and "v<version>.md", in quotes                     *)
FilePathSize(v) ==
    2 + 22 + DirSize(SubSeq(v.file_path, 1, Len(v.file_path) - 1))
      + 1 + 4 + Len(Str(v.version))

(* One entry of "versions"; author is null, variables is [] and            *)
(* token_count has one digit for the contents used here.                   *)
VersionSize(v) ==
    209 + Len(Str(v.version)) + JsonSize(v.source_file) + FilePathSize(v)
        + JsonSize(v.message) + 1

RECURSIVE SumVersionSizes(_)
SumVersionSizes(versions) ==
    IF versions = <<>> THEN 0
    ELSE VersionSize(Head(versions)) + SumVersionSizes(Tail(versions))

MetadataSize(doc) ==
    187 + JsonSize(doc.name) + Len(Str(doc.current_version))
        + (IF doc.versions = <<>> THEN 2
           ELSE 6 + SumVersionSizes(doc.versions) + 2 * (Len(doc.versions) - 1))

TagSize(tag) ==
    174 + 2 * Len(tag.name) + Len(Str(tag.version)) + JsonSize(tag.description)

RECURSIVE SumTagSizes(_, _)
SumTagSizes(tags, names) ==
    IF names = {} THEN 0
    ELSE LET t == CHOOSE n \in names : TRUE
         IN  TagSize(tags[t]) + SumTagSizes(tags, names \ {t})

TagsSize(doc) ==
    33 + JsonSize(doc.prompt_name)
       + (IF DOMAIN doc.tags = {} THEN 2
          ELSE 6 + SumTagSizes(doc.tags, DOMAIN doc.tags)
                 + 2 * (Cardinality(DOMAIN doc.tags) - 1))

(* A JSON file cut short or with bytes left over after the document: it    *)
(* fails to parse.                                                         *)
Partial(size) == [kind |-> "garbage", size |-> size]

FileSize(doc) ==
    CASE doc.kind = "text" -> Len(doc.data)
      [] doc.kind = "metadata" -> MetadataSize(doc)
      [] doc.kind = "tags" -> TagsSize(doc)
      [] doc.kind = "garbage" -> doc.size

(* open(path, 'w') *)
OpenForWrite(d, path) ==
    WriteFile(d, path,
              IF path[Len(path)] \in {"metadata.json", "tags.json"}
              THEN Partial(0)
              ELSE [kind |-> "text", data |-> <<>>])

(* f.write(...) and close on a handle opened earlier: the bytes go to      *)
(* offset 0 and the file keeps whatever it holds beyond them.              *)
WriteAtStart(d, path, doc) ==
    LET current == d.files[path]
    IN  IF FileSize(current) <= FileSize(doc) THEN WriteFile(d, path, doc)
        ELSE IF doc.kind = "text"
             THEN WriteFile(d, path,
                      [kind |-> "text",
                       data |-> doc.data \o SubSeq(current.data, Len(doc.data) + 1,
                                                   Len(current.data))])
        ELSE WriteFile(d, path, Partial(FileSize(current)))

Procs == {1, 2}

CommitCalls ==
    {[op |-> "set_prompt", name |-> SeedName, project |-> NoProject,
      content |-> <<"h">>, source_file |-> "None", message |-> "None"],
     [op |-> "commit_prompt", name |-> SeedName, project |-> NoProject,
      content |-> ReadText(<<"a", CR>>), source_file |-> "p.md", message |-> "None"]}

TagCalls ==
    {[op |-> "create_tag", name |-> SeedName, project |-> NoProject, tag |-> t,
      version |-> 2, description |-> "None", allow_update |-> TRUE] : t \in TagNames}

RemoveCalls ==
    {[op |-> "remove_prompts", name |-> SeedName, project |-> NoProject]}

Start(call) == [call |-> call, pc |-> "load", local |-> None, result |-> None]

InitRace ==
    /\ disk = SeededTagged(TwoVersions, TRUE)
    /\ committed = [l \in Locations |->
                       IF l = <<SeedName, NoProject>> THEN TwoVersions ELSE <<>>]
    /\ clock = 0
    /\ ret = [op |-> "init", result |-> None]
    /\ nops = 0
    /\ client = NoClient
    /\ \/ \E c1 \in CommitCalls, c2 \in CommitCalls :
             race = [proc |-> <<Start(c1), Start(c2)>>, log |-> <<>>]
       \/ \E c1 \in TagCalls, c2 \in TagCalls :
             /\ c1.tag # c2.tag
             /\ race = [proc |-> <<Start(c1), Start(c2)>>, log |-> <<>>]
       \/ \E c1 \in RemoveCalls, c2 \in TagCalls :
             race = [proc |-> <<Start(c1), Start(c2)>>, log |-> <<>>]

(* Process p moves to pc with its local values and result; the step is     *)
(* added to the order of steps.                                            *)
Step(p, pc, local, result) ==
    race' = [proc |-> [race.proc EXCEPT ![p] = [@ EXCEPT !.pc = pc,
                                                         !.local = local,
                                                         !.result = result]],
             log |-> Append(race.log, <<p, race.proc[p].pc>>)]

At(p, ops, pc) ==
    /\ race.proc[p].call.op \in ops
    /\ race.proc[p].pc = pc

(* set_prompt 325-328, commit_prompt 268-271 *)
load_metadata(p) ==
    /\ At(p, {"set_prompt", "commit_prompt"}, "load")
    /\ LET call == race.proc[p].call
           loaded == LoadMetadata(disk, call.name, call.project, clock)
       IN  IF loaded.status = "raise"
           THEN Step(p, "done", None, loaded)
           ELSE Step(p, "open_content",
                     [metadata |-> loaded.value,
                      version |-> loaded.value.current_version + 1,
                      prompt_file |-> GetPromptDir(call.name, call.project)
                          \o <<VersionFileName(loaded.value.current_version + 1)>>],
                     None)
    /\ UNCHANGED <<disk, clock, committed, ret, nops, client>>

(* set_prompt 331-339 *)
open_content(p) ==
    /\ At(p, {"set_prompt", "commit_prompt"}, "open_content")
    /\ LET call == race.proc[p].call
           local == race.proc[p].local
       IN  /\ disk' = OpenForWrite(Mkdir(disk, GetPromptDir(call.name, call.project)),
                                   local.prompt_file)
           /\ Step(p, "write_content", local, None)
    /\ UNCHANGED <<clock, committed, ret, nops, client>>

(* set_prompt 340 *)
write_content(p) ==
    /\ At(p, {"set_prompt", "commit_prompt"}, "write_content")
    /\ LET call == race.proc[p].call
           local == race.proc[p].local
       IN  /\ disk' = WriteAtStart(disk, local.prompt_file,
                                   [kind |-> "text", data |-> WriteText(call.content)])
           /\ Step(p, "open_metadata", local, None)
    /\ UNCHANGED <<clock, committed, ret, nops, client>>

(* set_prompt 348-363, _save_metadata 153-165 *)
open_metadata(p) ==
    /\ At(p, {"set_prompt", "commit_prompt"}, "open_metadata")
    /\ \E now \in Nows :
         LET call == race.proc[p].call
             local == race.proc[p].local
             version_info == [version |-> local.version, timestamp |-> now,
                              source_file |-> call.source_file,
                              file_path |-> local.prompt_file,
                              message |-> call.message,
                              token_count |-> CountTokens(call.content, SeedEstimate).value]
             metadata == AppendVersion(local.metadata, version_info, now)
             metadata_file == GetMetadataFile(call.name, call.project)
         IN  /\ disk' = OpenForWrite(Mkdir(disk, SubSeq(metadata_file, 1,
                                                        Len(metadata_file) - 1)),
                                     metadata_file)
             /\ clock' = now
             /\ Step(p, "write_metadata",
                     [version |-> local.version, prompt_file |-> local.prompt_file,
                      doc |-> DumpMetadata(metadata)],
                     None)
    /\ UNCHANGED <<committed, ret, nops, client>>

(* _save_metadata 166, set_prompt 367-371 *)
write_metadata(p) ==
    /\ At(p, {"set_prompt", "commit_prompt"}, "write_metadata")
    /\ LET call == race.proc[p].call
           local == race.proc[p].local
       IN  /\ disk' = WriteAtStart(disk, GetMetadataFile(call.name, call.project),
                                   local.doc)
           /\ Step(p, "done", local,
                   Ok([name |-> call.name, version |-> local.version,
                       file_path |-> local.prompt_file]))
    /\ UNCHANGED <<clock, committed, ret, nops, client>>

(* create_tag 116-144 *)
load_tags(p) ==
    /\ At(p, {"create_tag"}, "load")
    /\ \E now \in Nows :
         LET call == race.proc[p].call
             registry == LoadTags(disk, call.name, call.project)
             old == registry.tags[call.tag]
             tag == IF call.tag \in DOMAIN registry.tags
                    THEN [old EXCEPT !.version = call.version,
                                     !.updated_at = now,
                                     !.description = IF call.description # "None"
                                                     THEN call.description ELSE @]
                    ELSE [name |-> call.tag, version |-> call.version,
                          created_at |-> now, updated_at |-> now,
                          description |-> call.description]
             tags_file == GetTagsFile(registry.prompt_name, call.project)
         IN  IF ~PathExists(disk, GetPromptDir(call.name, call.project))
             THEN /\ Step(p, "done", None, Raise("PromptNotFoundError"))
                  /\ UNCHANGED clock
             ELSE IF call.tag \in DOMAIN registry.tags /\ ~call.allow_update
             THEN /\ Step(p, "done", None, Raise("TagAlreadyExistsError"))
                  /\ UNCHANGED clock
             ELSE /\ Step(p, "open_tags",
                          [tag |-> tag, tags_file |-> tags_file,
                           doc |-> SaveTags(disk, PutTag(registry, call.tag, tag),
                                            call.project).files[tags_file]],
                          None)
                  /\ clock' = now
    /\ UNCHANGED <<disk, committed, ret, nops, client>>

(* _save_tags 72-85 *)
open_tags(p) ==
    /\ At(p, {"create_tag"}, "open_tags")
    /\ LET local == race.proc[p].local
       IN  /\ disk' = OpenForWrite(Mkdir(disk, SubSeq(local.tags_file, 1,
                                                      Len(local.tags_file) - 1)),
                                   local.tags_file)
           /\ Step(p, "write_tags", local, None)
    /\ UNCHANGED <<clock, committed, ret, nops, client>>

(* _save_tags 86, create_tag 149 *)
write_tags(p) ==
    /\ At(p, {"create_tag"}, "write_tags")
    /\ LET local == race.proc[p].local
       IN  /\ disk' = IF local.tags_file \in DOMAIN disk.files
                      THEN WriteAtStart(disk, local.tags_file, local.doc)
                      ELSE disk
           /\ Step(p, "done", local, Ok(local.tag))
    /\ UNCHANGED <<clock, committed, ret, nops, client>>

(* remove_prompts 445-447 *)
remove_exists(p) ==
    /\ At(p, {"remove_prompts"}, "load")
    /\ LET call == race.proc[p].call
           prompt_dir == GetPromptDir(call.name, call.project)
       IN  IF PathExists(disk, prompt_dir)
           THEN Step(p, "rmtree", [prompt_dir |-> prompt_dir], None)
           ELSE Step(p, "done", None, Ok([n \in {call.name} |-> FALSE]))
    /\ UNCHANGED <<disk, clock, committed, ret, nops, client>>

(* remove_prompts 448, shutil.rmtree: the entries of the directory are     *)
(* unlinked first.                                                         *)
rmtree_unlink(p) ==
    /\ At(p, {"remove_prompts"}, "rmtree")
    /\ LET local == race.proc[p].local
       IN  /\ disk' = Mkdir(RmTree(disk, local.prompt_dir), local.prompt_dir)
           /\ Step(p, "rmdir", local, None)
    /\ UNCHANGED <<clock, committed, ret, nops, client>>

(* remove_prompts 448-449, shutil.rmtree: the directory itself is removed  *)
(* last, and os.rmdir raises OSError on a directory that is not empty.     *)
rmtree_rmdir(p) ==
    /\ At(p, {"remove_prompts"}, "rmdir")
    /\ LET call == race.proc[p].call
           local == race.proc[p].local
       IN  IF RmTree(disk, local.prompt_dir) = [disk EXCEPT !.dirs = @ \ {local.prompt_dir}]
           THEN /\ disk' = RmTree(disk, local.prompt_dir)
                /\ Step(p, "done", local, Ok([n \in {call.name} |-> TRUE]))
           ELSE /\ disk' = disk
                /\ Step(p, "done", local, Raise("OSError"))
    /\ UNCHANGED <<clock, committed, ret, nops, client>>

NextRace ==
    \E p \in Procs :
        \/ load_metadata(p)
        \/ open_content(p)
        \/ write_content(p)
        \/ open_metadata(p)
        \/ write_metadata(p)
        \/ load_tags(p)
        \/ open_tags(p)
        \/ write_tags(p)
        \/ remove_exists(p)
        \/ rmtree_unlink(p)
        \/ rmtree_rmdir(p)

SpecRace == InitRace /\ [][NextRace]_vars

-----------------------------------------------------------------------------
(* A PromptClient with its cache on a store that other callers change.     *)
(* The store starts with two versions of greet, the second a template, and *)
(* the tag prod -> 1; a second prompt, greet:, has one version.            *)
Template == <<"{", "{", "n", "}", "}">>

ClientContents == <<<<"h">>, Template>>

RECURSIVE SeededWith(_)
SeededWith(cs) ==
    IF cs = <<>> THEN EmptyDisk
    ELSE SetPrompt(SeededWith(SubSeq(cs, 1, Len(cs) - 1)), SeedName, cs[Len(cs)],
                   "None", NoProject, SeedEstimate, 0, 0).disk

ColonName == "greet:"

SeededClient ==
    SetPrompt(CreateTag(SeededWith(ClientContents), SeedName, Prod, 1, "None", FALSE,
                        NoProject, 0).disk,
              ColonName, <<"h", "i">>, "None", NoProject, SeedEstimate, 0, 0).disk

(* The times the client reads from datetime.now(), in seconds *)
Times == 0..2

CacheTtls == {0, 1}

Variables == <<<<<<"n">>, <<"x">>>>>>

(* The calls of get_prompt made here: name, label, version, variables,     *)
(* use_cache                                                               *)
ClientCalls ==
    {<<SeedName, NoOption, <<>>, NoVariables, TRUE>>,
     <<SeedName, NoOption, <<>>, NoVariables, FALSE>>,
     <<SeedName, Prod, <<>>, NoVariables, TRUE>>,
     <<SeedName, NoOption, <<2>>, NoVariables, TRUE>>,
     <<SeedName, NoOption, <<>>, Variables, TRUE>>,
     <<SeedName, Prod, <<2>>, NoVariables, TRUE>>,
     <<SeedName, <<":">>, <<>>, NoVariables, TRUE>>,
     <<ColonName, NoOption, <<>>, NoVariables, TRUE>>}

(* The number of calls a client makes: one for each time it can read *)
MaxCalls == Cardinality(Times)

InitClient ==
    /\ disk = SeededClient
    /\ committed = [l \in Locations |->
                       IF l = <<SeedName, NoProject>> THEN ClientContents ELSE <<>>]
    /\ clock = 0
    /\ ret = [op |-> "init", result |-> None]
    /\ nops = 0
    /\ race = NoRace
    /\ \E ttl \in CacheTtls :
          client = [cache |-> <<>>, cache_ttl |-> ttl, now |-> 0, calls |-> 0]

sdk_get_prompt(name, label, version, variables, use_cache) ==
    /\ Running
    /\ \E checked \in Times, cached_at \in Times :
         LET r == ClientGetPrompt(disk, client, name, label, version, variables,
                                  use_cache, checked, cached_at)
         IN  /\ client.now <= checked
             /\ checked <= cached_at
             /\ client.calls < MaxCalls
             /\ client' = [client EXCEPT !.cache = r.cache, !.now = cached_at,
                                         !.calls = @ + 1]
             /\ ret' = [op |-> "sdk_get_prompt", name |-> name, project |-> NoProject,
                        label |-> label, version |-> version, variables |-> variables,
                        use_cache |-> use_cache, checked |-> checked,
                        key |-> CacheKey(name, label, version, variables),
                        found |-> IF CacheKey(name, label, version, variables)
                                        \in DOMAIN client.cache
                                  THEN <<client.cache[CacheKey(name, label, version,
                                                               variables)]>>
                                  ELSE <<>>,
                        result |-> r.result]
    /\ UNCHANGED <<disk, clock, committed, nops, race>>

clear_cache ==
    /\ Running
    /\ client.cache # <<>>
    /\ client' = [client EXCEPT !.cache = <<>>]
    /\ ret' = [op |-> "clear_cache", name |-> SeedName, project |-> NoProject,
               result |-> Ok(TRUE)]
    /\ UNCHANGED <<disk, clock, committed, nops, race>>

NextClient ==
    \/ \E c \in ClientCalls : sdk_get_prompt(c[1], c[2], c[3], c[4], c[5])
    \/ clear_cache
    \/ \E n \in Names, m \in Messages :
          set_prompt(n, <<"a", LF>>, m, NoProject, SeedEstimate)
    \/ \E n \in Names : create_tag(n, Prod, 2, "None", TRUE, NoProject)
    \/ \E n \in Names : remove_prompts(<<n>>, NoProject)

SpecClient == InitClient /\ [][NextClient]_vars

-----------------------------------------------------------------------------
(* Commits that stop between the content file and the metadata, the        *)
(* commits that follow them and the reads.  A stopped commit is no         *)
(* operation of the caller's run: the result records what it had written.  *)
stopped_commit(name, content, project) ==
    /\ Running
    /\ LET r == StoreVersionStopped(disk, name, content, project, clock)
       IN  /\ r.result.status = "ok"
           /\ disk' = r.disk
           /\ ret' = [op |-> "stopped_commit", name |-> name, project |-> project,
                      content |-> content, result |-> r.result]
    /\ UNCHANGED <<clock, committed, nops, race, client>>

NextStopped ==
    \/ \E n \in Names, c \in Contents, p \in Projects : stopped_commit(n, c, p)
    \/ \E n \in Names, c \in Contents, m \in Messages, p \in Projects :
          set_prompt(n, c, m, p, SeedEstimate)
    \/ \E s \in Sources, n \in Names, m \in Messages, p \in Projects :
          commit_prompt(s, n, m, p, SeedEstimate)
    \/ \E n \in Names, r \in VersionRefs, p \in Projects : get_prompt(n, r, p)
    \/ \E n \in Names, r \in VersionRefs, p \in Projects :
          get_prompt_with_metadata(n, r, p)

SpecStopped == Init /\ [][NextStopped]_vars

-----------------------------------------------------------------------------
(* Commits whose token counter may fail, and the reads that show what they *)
(* stored.                                                                 *)
NextCounter ==
    \/ \E n \in Names, c \in Contents, m \in Messages, p \in Projects,
          e \in Estimates : set_prompt(n, c, m, p, e)
    \/ \E s \in Sources, n \in Names, m \in Messages, p \in Projects,
          e \in Estimates : commit_prompt(s, n, m, p, e)
    \/ \E n \in Names, r \in VersionRefs, p \in Projects :
          get_prompt_with_metadata(n, r, p)
    \/ \E n \in Names, p \in Projects : list_versions(n, p)

SpecCounter == Init /\ [][NextCounter]_vars

-----------------------------------------------------------------------------
(* The commands of the CLI, run one at a time on a store that starts       *)
(* empty.  A command that fails prints the error and exits with status 1.  *)

(* cli.py 60-105: commit --source --name [-m] [--tag] [--project] *)
CliCommit(d, source, name, message, tag, project, loadNow, now) ==
    LET r == CommitPrompt(d, source, name, message, project, SeedEstimate, loadNow, now)
        t == CreateTag(r.disk, name, tag, r.result.value.version, "None", TRUE,
                       project, now)
    IN  IF ~source.exists THEN [disk |-> d, result |-> Raise("UsageError")]
        ELSE IF r.result.status = "raise" THEN r
        ELSE IF tag = NoOption THEN r
        ELSE IF t.result.status = "raise" THEN t
        ELSE [disk |-> t.disk, result |-> r.result]

(* cli.py 108-158: set NAME -c CONTENT [-m] [--project] *)
CliSet(d, name, content, message, project, loadNow, now) ==
    IF content = <<>> THEN [disk |-> d, result |-> Raise("SystemExit")]
    ELSE SetPrompt(d, name, content, message, project, SeedEstimate, loadNow, now)

(* cli.py 487-541: remove NAMES --yes [--project] *)
CliRemove(d, names, project) ==
    IF \A i \in 1..Len(names) : ~PromptExists(d, names[i], project)
    THEN [disk |-> d, result |-> Raise("SystemExit")]
    ELSE RemovePrompts(d, names, project, <<>>)

(* tag create without the check of --version against 1..current_version. *)
CliTagCreateUnvalidated(d, prompt_name, tag_name, version, description, force, project, now) ==
    LET loaded == LoadMetadata(d, prompt_name, project, now)
        metadata == loaded.value
    IN  IF loaded.status = "raise" THEN [disk |-> d, result |-> loaded]
        ELSE IF metadata.versions = <<>>
        THEN [disk |-> d, result |-> Raise("PromptNotFoundError")]
        ELSE CreateTag(d, prompt_name, tag_name,
                       IF version = None THEN metadata.current_version
                       ELSE version.value,
                       description, force, project, now)

(* cli.py 551-610: tag create PROMPT TAG [--version] [-d] [--force]        *)
(* [--project]; version is None when the option is not given.              *)
CliTagCreate(d, prompt_name, tag_name, version, description, force, project, now) ==
    LET loaded == LoadMetadata(d, prompt_name, project, now)
        metadata == loaded.value
    IN  IF loaded.status = "raise" THEN [disk |-> d, result |-> loaded]
        ELSE IF metadata.versions = <<>>
        THEN [disk |-> d, result |-> Raise("PromptNotFoundError")]
        ELSE IF version = None
        THEN CreateTag(d, prompt_name, tag_name, metadata.current_version,
                       description, force, project, now)
        ELSE IF version.value < 1 \/ version.value > metadata.current_version
        THEN [disk |-> d, result |-> Raise("SystemExit")]
        ELSE CreateTag(d, prompt_name, tag_name, version.value, description, force,
                       project, now)

(* cli.py 692-733: tag delete PROMPT TAG --yes [--project] *)
CliTagDelete(d, prompt_name, tag_name, project) ==
    IF GetTag(d, prompt_name, tag_name, project) = None
    THEN [disk |-> d, result |-> Raise("TagNotFoundError")]
    ELSE DeleteTag(d, prompt_name, tag_name, project)

(* The --version values given to tag create, and the tag names given to   *)
(* commit --tag, tag create and tag delete.                                *)
CliVersions == {None} \cup {Ok(v) : v \in 0..(MaxSeed + 1)}

CliTags == {Prod, <<"2">>}

(* MaxCommands bounds the number of commands that change the store.  The   *)
(* commands all read the same time from the wall clock: no command looks   *)
(* at a timestamp it or another command has stored.                        *)
MaxCommands == MaxOps + 2

Charge ==
    /\ nops' = IF disk' # disk THEN nops + 1 ELSE nops
    /\ nops' <= MaxCommands

InitCli ==
    /\ disk = EmptyDisk
    /\ committed = [l \in Locations |-> <<>>]
    /\ clock = 0
    /\ ret = [op |-> "init", result |-> None]
    /\ nops = 0
    /\ race = NoRace
    /\ client = NoClient

cli_commit(source, name, message, tag, project) ==
    /\ Running
    /\ \E now \in {clock} :
         LET r == CliCommit(disk, source, name, message, tag, project, clock, now)
         IN  /\ disk' = r.disk
             /\ clock' = now
             /\ committed' = IF PathExists(r.disk, GetMetadataFile(name, project))
                                /\ r.disk # disk
                             THEN [committed EXCEPT ![<<name, project>>] =
                                      Append(@, ReadText(source.data))]
                             ELSE committed
             /\ ret' = [op |-> "cli_commit", name |-> name, project |-> project,
                        tag |-> tag, result |-> r.result]
    /\ Charge
    /\ UNCHANGED <<race, client>>

cli_set(name, content, message, project) ==
    /\ Running
    /\ \E now \in {clock} :
         LET r == CliSet(disk, name, content, message, project, clock, now)
         IN  /\ disk' = r.disk
             /\ clock' = now
             /\ committed' = IF r.result.status = "ok"
                             THEN [committed EXCEPT ![<<name, project>>] = Append(@, content)]
                             ELSE committed
             /\ ret' = [op |-> "cli_set", name |-> name, project |-> project,
                        result |-> r.result]
    /\ Charge
    /\ UNCHANGED <<race, client>>

cli_remove(names, project) ==
    /\ Running
    /\ LET r == CliRemove(disk, names, project)
       IN  /\ disk' = r.disk
           /\ committed' = Forget(r.disk)
           /\ ret' = [op |-> "cli_remove", names |-> names, project |-> project,
                      result |-> r.result]
    /\ Charge
    /\ UNCHANGED <<clock, race, client>>

cli_tag_create(prompt_name, tag_name, version, description, force, project) ==
    /\ Running
    /\ \E now \in {clock} :
         LET r == CliTagCreate(disk, prompt_name, tag_name, version, description,
                               force, project, now)
         IN  /\ disk' = r.disk
             /\ clock' = now
             /\ ret' = [op |-> "cli_tag_create", name |-> prompt_name,
                        project |-> project, tag |-> tag_name, version |-> version,
                        force |-> force, result |-> r.result]
    /\ Charge
    /\ UNCHANGED <<committed, race, client>>

cli_tag_delete(prompt_name, tag_name, project) ==
    /\ Running
    /\ LET r == CliTagDelete(disk, prompt_name, tag_name, project)
       IN  /\ disk' = r.disk
           /\ ret' = [op |-> "cli_tag_delete", name |-> prompt_name,
                      project |-> project, tag |-> tag_name, result |-> r.result]
    /\ Charge
    /\ UNCHANGED <<clock, committed, race, client>>

NextCli ==
    \/ \E s \in Sources, n \in Names, m \in Messages, t \in {NoOption} \cup CliTags,
          p \in Projects : cli_commit(s, n, m, t, p)
    \/ \E n \in Names, c \in Contents \cup {<<>>}, m \in Messages, p \in Projects :
          cli_set(n, c, m, p)
    \/ \E ns \in NameLists, p \in Projects : cli_remove(ns, p)
    \/ \E n \in Names, t \in CliTags, v \in CliVersions, f \in BOOLEAN,
          p \in Projects : cli_tag_create(n, t, v, "None", f, p)
    \/ \E n \in Names, t \in CliTags, p \in Projects : cli_tag_delete(n, t, p)

SpecCli == InitCli /\ [][NextCli]_vars

-----------------------------------------------------------------------------
(* The diff command after commands that store under the default project.   *)

(* cli.py 64, 112, 557: --project has default='default' *)
DefaultProject == "default"

(* cli.py 1580-1641: diff PROMPT REF-A REF-B; the result is the pair of     *)
(* contents handed to the diff engine.                                     *)
CliDiff(d, prompt_name, ref_a, ref_b, now) ==
    LET loaded == LoadMetadata(d, prompt_name, NoProject, now)
        max_version == loaded.value.current_version
        version_a == ResolveVersion(d, prompt_name, ref_a, max_version, NoProject)
        version_b == ResolveVersion(d, prompt_name, ref_b, max_version, NoProject)
        content_a == GetPromptWithMetadata(d, prompt_name, Str(version_a.value),
                                           NoProject, now)
        content_b == GetPromptWithMetadata(d, prompt_name, Str(version_b.value),
                                           NoProject, now)
    IN  IF loaded.status = "raise" THEN loaded
        ELSE IF version_a.status = "raise" THEN version_a
        ELSE IF version_b.status = "raise" THEN version_b
        ELSE IF content_a.status = "raise" THEN content_a
        ELSE IF content_b.status = "raise" THEN content_b
        ELSE Ok(<<content_a.value.content, content_b.value.content>>)

(* The --project values: not given, or given as the empty string. *)
DiffProjects == {DefaultProject, NoProject}

DiffRefs == {<<"1">>, <<"2">>, Latest, Prod, Staging}

InitDiff ==
    /\ disk = EmptyDisk
    /\ committed = [l \in Names \X DiffProjects |-> <<>>]
    /\ clock = 0
    /\ ret = [op |-> "init", result |-> None]
    /\ nops = 0
    /\ race = NoRace
    /\ client = NoClient

cli_diff(prompt_name, ref_a, ref_b) ==
    /\ Running
    /\ ret' = [op |-> "cli_diff", name |-> prompt_name, ref_a |-> ref_a,
               ref_b |-> ref_b, result |-> CliDiff(disk, prompt_name, ref_a, ref_b, clock)]
    /\ UNCHANGED <<disk, clock, committed, nops, race, client>>

NextDiff ==
    \/ \E s \in Sources, n \in Names, m \in Messages, t \in {NoOption, Prod},
          p \in DiffProjects : cli_commit(s, n, m, t, p)
    \/ \E n \in Names, c \in Contents, m \in Messages, p \in DiffProjects :
          cli_set(n, c, m, p)
    \/ \E n \in Names, v \in {Ok(1), Ok(2)}, p \in DiffProjects :
          cli_tag_create(n, Staging, v, "None", FALSE, p)
    \/ \E n \in Names, a \in DiffRefs, b \in DiffRefs : cli_diff(n, a, b)

SpecDiff == InitDiff /\ [][NextDiff]_vars

-----------------------------------------------------------------------------
(* What is on disk, read without the store's own loaders *)

StoredVersions(name, project) ==
    IF GetMetadataFile(name, project) \in DOMAIN disk.files
    THEN disk.files[GetMetadataFile(name, project)].versions
    ELSE <<>>

StoredCurrent(name, project) ==
    IF GetMetadataFile(name, project) \in DOMAIN disk.files
    THEN disk.files[GetMetadataFile(name, project)].current_version
    ELSE 0

StoredTags(d, name, project) ==
    IF GetTagsFile(name, project) \in DOMAIN d.files
    THEN d.files[GetTagsFile(name, project)].tags
    ELSE <<>>

-----------------------------------------------------------------------------
(* C1: after N successful commits (commit_prompt or set_prompt) on one     *)
(* (name, project) since it was last removed, the metadata holds the       *)
(* version numbers 1..N in list order and current_version = N; with no     *)
(* commit the list is empty and current_version = 0.                       *)
C1_VersionsGapFree ==
    \A l \in Locations :
        LET metadata == LoadMetadata(disk, l[1], l[2], clock).value
            N == Len(committed[l])
        IN  /\ Len(metadata.versions) = N
            /\ \A i \in 1..N : metadata.versions[i].version = i
            /\ metadata.current_version = N
            /\ Len(StoredVersions(l[1], l[2])) = N
            /\ StoredCurrent(l[1], l[2]) = N

C1_Witness ==
    /\ ret.op = "commit_prompt"
    /\ ret.result.status = "ok"
    /\ ret.result.value.version = 3
    /\ Len(committed[<<ret.name, ret.project>>]) = 3

(* C2: get(name, k) returns the k-th committed content unchanged, and      *)
(* get(name, "latest") the last one.                                       *)
C2_RoundTrip ==
    \A l \in Locations :
        LET N == Len(committed[l])
        IN  /\ \A k \in 1..N :
                  GetPrompt(disk, l[1], Str(k), l[2], clock) = Ok(committed[l][k])
            /\ N > 0 => GetPrompt(disk, l[1], Latest, l[2], clock) = Ok(committed[l][N])

(* C3: resolve with a ref that parses as an integer returns it when        *)
(* 1 <= value <= maxVersion and raises ValueError otherwise, whether or    *)
(* not a tag of that name is stored.                                       *)
NumericRefs == {<<"0">>, <<"1">>, <<"2">>, <<" ", "2">>, <<"3">>}

RefValue(ref) ==
    CASE ref = <<"0">> -> 0 [] ref = <<"1">> -> 1 [] ref = <<"2">> -> 2
      [] ref = <<" ", "2">> -> 2 [] ref = <<"3">> -> 3

C3_NumericRef ==
    (ret.op = "resolve_version" /\ ret.ref \in NumericRefs) =>
        ret.result = IF 1 <= RefValue(ret.ref) /\ RefValue(ret.ref) <= ret.max_version
                     THEN Ok(RefValue(ret.ref))
                     ELSE Raise("ValueError")

C3_Witness ==
    /\ ret.op = "resolve_version"
    /\ ret.ref = <<"2">>
    /\ ret.max_version = 0
    /\ <<"2">> \in DOMAIN StoredTags(disk, ret.name, ret.project)
    /\ ret.result = Raise("ValueError")

(* C4: resolve of "latest" returns maxVersion for every maxVersion >= 0    *)
(* and never raises, even when a tag named latest is stored.               *)
C4_Latest ==
    (ret.op = "resolve_version" /\ ret.ref = Latest) => ret.result = Ok(ret.max_version)

C4_Witness ==
    /\ ret.op = "resolve_version"
    /\ ret.ref = Latest
    /\ ret.max_version = 0
    /\ Latest \in DOMAIN StoredTags(disk, ret.name, ret.project)
    /\ StoredTags(disk, ret.name, ret.project)[Latest].version = 2
    /\ ret.result = Ok(0)

(* C5: resolve of a ref that is neither "latest" nor an integer returns    *)
(* the version stored for the tag of that name under (name, project), and  *)
(* raises TagNotFound when none is stored; once a tag is deleted,          *)
(* resolving its name raises TagNotFound.                                  *)
C5_TagRef ==
    /\ (ret.op = "resolve_version" /\ ret.ref \in {Prod, Staging}) =>
          ret.result = IF ret.ref \in DOMAIN StoredTags(disk, ret.name, ret.project)
                       THEN Ok(StoredTags(disk, ret.name, ret.project)[ret.ref].version)
                       ELSE Raise("TagNotFoundError")
    /\ (ret.op = "delete_tag" /\ ret.result.status = "ok" /\ ret.tag = Prod) =>
          \A mv \in MaxVersions :
              ResolveVersion(disk, ret.name, ret.tag, mv, ret.project)
                  = Raise("TagNotFoundError")

C5_Witness ==
    /\ ret.op = "resolve_version"
    /\ ret.ref = Prod
    /\ ret.max_version = 0
    /\ ret.result = Ok(2)

(* The disk with one file gone, as after a write that never landed *)
Unlinked(d, path) ==
    [d EXCEPT !.files = [q \in (DOMAIN @) \ {path} |-> @[q]]]

VersionFile(name, project, k) == GetPromptDir(name, project) \o <<VersionFileName(k)>>

TagPointsInto(name, project, tag) ==
    /\ tag \in DOMAIN StoredTags(disk, name, project)
    /\ StoredTags(disk, name, project)[tag].version \in 1..Len(StoredVersions(name, project))

Requested(ref, N) ==
    IF ref = Latest THEN N ELSE IF ref \in NumericRefs THEN RefValue(ref) ELSE 0

(* C7: get returns None, and does not raise, when the prompt has no        *)
(* versions, when ref names a version that has no record, or when the      *)
(* content file of the version is missing; the call leaves the disk as it  *)
(* was, so no metadata document or directory appears and exists(name) is   *)
(* unchanged.                                                              *)
C7_GetAbsent ==
    [][ret'.op = "get_prompt" =>
          LET N == Len(StoredVersions(ret'.name, ret'.project))
              k == Requested(ret'.ref, N)
          IN  /\ disk' = disk
              /\ PromptExists(disk', ret'.name, ret'.project)
                     = PromptExists(disk, ret'.name, ret'.project)
              /\ GetMetadataFile(ret'.name, ret'.project) \in DOMAIN disk'.files
                     <=> GetMetadataFile(ret'.name, ret'.project) \in DOMAIN disk.files
              /\ (N = 0 \/ (ret'.ref \in NumericRefs /\ k \notin 1..N))
                     => ret'.result = None
              /\ k \in 1..N =>
                     GetPrompt(Unlinked(disk, VersionFile(ret'.name, ret'.project, k)),
                               ret'.name, ret'.ref, ret'.project, clock) = None
      ]_vars

C7_Witness ==
    /\ ret.op = "get_prompt"
    /\ ret.ref = <<"3">>
    /\ Len(StoredVersions(ret.name, ret.project)) = 2
    /\ ret.result = None

(* C8: getWithRecord raises PromptNotFound exactly when the metadata has   *)
(* no versions, VersionNotFound when it has versions and the requested one *)
(* has no record or its content file is missing, and otherwise returns the *)
(* content with the record whose version is the requested one.             *)
C8_GetWithRecord ==
    ret.op = "get_prompt_with_metadata" =>
          LET versions == StoredVersions(ret.name, ret.project)
              N == Len(versions)
              k == Requested(ret.ref, N)
          IN  /\ (ret.result = Raise("PromptNotFoundError")) <=> (N = 0)
              /\ (N > 0 /\ k \notin 1..N) => ret.result = Raise("VersionNotFoundError")
              /\ (N > 0 /\ k \in 1..N) =>
                    /\ ret.result.status = "ok"
                    /\ ret.result.value.version_meta.version = k
                    /\ ret.result.value.version_meta = ParseVersion(versions[k])
                    /\ ret.result.value.content
                           = ReadText(disk.files[VersionFile(ret.name, ret.project, k)].data)
                    /\ GetPromptWithMetadata(
                           Unlinked(disk, VersionFile(ret.name, ret.project, k)),
                           ret.name, ret.ref, ret.project, clock)
                           = Raise("VersionNotFoundError")

C8_Witness ==
    /\ ret.op = "get_prompt_with_metadata"
    /\ ret.ref = <<"1">>
    /\ Len(StoredVersions(ret.name, ret.project)) = 2
    /\ ret.result.status = "ok"
    /\ ret.result.value.version_meta.version = 1

(* C9: remove(names) deletes the metadata, every version's content and the *)
(* tag document of each listed name that exists and maps each name that    *)
(* does not exist to false without raising; afterwards exists(name) is     *)
(* false, get(name, ref) is None for every ref and the tag list is empty,  *)
(* and this stays so until a commit.                                       *)
Gone(d, name, project) ==
    /\ ~PromptExists(d, name, project)
    /\ \A q \in DOMAIN d.files : ~IsPrefix(GetPromptDir(name, project), q)
    /\ \A ref \in VersionRefs : GetPrompt(d, name, ref, project, clock) = None
    /\ ListTags(d, name, project) = <<>>

C9_Remove ==
    [][/\ ret'.op = "remove_prompts" =>
            /\ ret'.result.status = "ok"
            /\ \A i \in 1..Len(ret'.names) :
                  /\ Gone(disk', ret'.names[i], ret'.project)
                  /\ ~PromptExists(disk, ret'.names[i], ret'.project) =>
                        ret'.result.value[ret'.names[i]] = FALSE
       /\ \A l \in Locations :
            (Gone(disk, l[1], l[2]) /\ ret'.op \notin {"set_prompt", "commit_prompt"})
                => Gone(disk', l[1], l[2])
      ]_vars

C9_Witness ==
    /\ ret.op = "remove_prompts"
    /\ ret.names = <<"greet">>
    /\ ret.result.value["greet"] = TRUE
    /\ Gone(disk, "greet", ret.project)

(* C10: create_tag with allow_update false for a tag name that is stored   *)
(* raises TagAlreadyExists and leaves the stored tag and every other tag   *)
(* of the prompt as they were.                                             *)
C10_NoOverwrite ==
    [][(/\ ret'.op = "create_tag"
        /\ ~ret'.allow_update
        /\ ret'.tag \in DOMAIN StoredTags(disk, ret'.name, ret'.project)) =>
            /\ ret'.result = Raise("TagAlreadyExistsError")
            /\ StoredTags(disk', ret'.name, ret'.project)
                   = StoredTags(disk, ret'.name, ret'.project)
            /\ disk' = disk
      ]_vars

C10_Witness ==
    /\ ret.op = "create_tag"
    /\ ~ret.allow_update
    /\ ret.tag \in DOMAIN StoredTags(disk, ret.name, ret.project)
    /\ StoredTags(disk, ret.name, ret.project)[ret.tag].description = "live"
    /\ ret.result = Raise("TagAlreadyExistsError")

(* C11: create_tag with allow_update true for a stored tag sets the tag's  *)
(* version to the given one, keeps created_at as it was set when the tag   *)
(* was first created, and sets updated_at to a value strictly greater than *)
(* the previous updated_at, after any number of updates.                   *)
C11_UpdateAdvances ==
    [][(/\ ret'.op = "create_tag"
        /\ ret'.allow_update
        /\ ret'.tag \in DOMAIN StoredTags(disk, ret'.name, ret'.project)) =>
            LET old == ParseTag(StoredTags(disk, ret'.name, ret'.project)[ret'.tag])
                new == ParseTag(StoredTags(disk', ret'.name, ret'.project)[ret'.tag])
            IN  /\ ret'.result.status = "ok"
                /\ new.version = ret'.version
                /\ new.created_at = old.created_at
                /\ new.updated_at > old.updated_at
      ]_vars

(* C12: create_tag for a prompt whose directory does not exist raises      *)
(* PromptNotFound, whatever allow_update is, and writes nothing: no tag    *)
(* document and no prompt directory exist afterwards and exists(name)      *)
(* stays false.                                                            *)
C12_TagNeedsPrompt ==
    [][(/\ ret'.op = "create_tag"
        /\ ~PromptExists(disk, ret'.name, ret'.project)) =>
            /\ ret'.result = Raise("PromptNotFoundError")
            /\ disk' = disk
            /\ GetTagsFile(ret'.name, ret'.project) \notin DOMAIN disk'.files
            /\ GetPromptDir(ret'.name, ret'.project) \notin disk'.dirs
            /\ ~PromptExists(disk', ret'.name, ret'.project)
      ]_vars

C12_Witness ==
    /\ ret.op = "create_tag"
    /\ ret.allow_update
    /\ ret.project = "greet"
    /\ PromptExists(disk, ret.name, NoProject)
    /\ ~PromptExists(disk, ret.name, ret.project)
    /\ ret.result = Raise("PromptNotFoundError")

C14_Delete ==
    [][ret'.op = "delete_tag" =>
          LET before == StoredTags(disk, ret'.name, ret'.project)
              after == StoredTags(disk', ret'.name, ret'.project)
          IN  IF ret'.tag \notin DOMAIN before
              THEN /\ ret'.result = Raise("TagNotFoundError")
                   /\ after = before
                   /\ disk' = disk
              ELSE /\ ret'.result = Ok(TRUE)
                   /\ DOMAIN after = (DOMAIN before) \ {ret'.tag}
                   /\ \A t \in DOMAIN after : after[t] = before[t]
                   /\ GetTag(disk', ret'.name, ret'.tag, ret'.project) = None
                   /\ DOMAIN ListTags(disk', ret'.name, ret'.project)
                          = (DOMAIN before) \ {ret'.tag}
      ]_vars

C14_Witness ==
    /\ ret.op = "delete_tag"
    /\ ret.tag = Prod
    /\ ret.result = Ok(TRUE)
    /\ DOMAIN StoredTags(disk, ret.name, ret.project) = {<<"2">>}
    /\ StoredTags(disk, ret.name, ret.project)[<<"2">>].version = 2

(* C16: tags are kept per (prompt, project): create_tag and delete_tag     *)
(* under (name, P) leave what get_tag, list_tags and resolve_version       *)
(* return for the same name under any other project, or under none, as it  *)
(* was, so one tag name can point to different versions in two scopes.     *)
C16_TagScopes ==
    [][ret'.op \in {"create_tag", "delete_tag"} =>
          \A q \in Projects \ {ret'.project} :
              /\ ListTags(disk', ret'.name, q) = ListTags(disk, ret'.name, q)
              /\ \A t \in TagNames :
                    GetTag(disk', ret'.name, t, q) = GetTag(disk, ret'.name, t, q)
              /\ \A r \in Refs, mv \in MaxVersions :
                    ResolveVersion(disk', ret'.name, r, mv, q)
                        = ResolveVersion(disk, ret'.name, r, mv, q)
      ]_vars

C16_Witness ==
    /\ ret.op = "create_tag"
    /\ ret.project = SeedProject
    /\ ret.tag = Prod
    /\ ret.result.status = "ok"
    /\ GetTag(disk, ret.name, Prod, SeedProject).value.version = 0
    /\ GetTag(disk, ret.name, Prod, NoProject).value.version = 1

TagsUnreadable(d, name, project) ==
    \/ GetTagsFile(name, project) \notin DOMAIN d.files
    \/ d.files[GetTagsFile(name, project)].kind # "tags"

(* C15: list_tags and get_tag never raise: when the prompt does not exist, *)
(* the tag document is missing, or the tag document cannot be parsed,      *)
(* list_tags returns the empty map and get_tag returns None.               *)
C15_TagReadsDegrade ==
    /\ ret.op \in {"list_tags", "get_tag"} => ret.result.status # "raise"
    /\ (/\ ret.op = "list_tags"
        /\ (~PromptExists(disk, ret.name, ret.project)
               \/ TagsUnreadable(disk, ret.name, ret.project))) =>
          ret.result = Ok(<<>>)
    /\ (/\ ret.op = "get_tag"
        /\ (~PromptExists(disk, ret.name, ret.project)
               \/ TagsUnreadable(disk, ret.name, ret.project))) =>
          ret.result = None

C15_Witness ==
    /\ ret.op = "list_tags"
    /\ GetTagsFile(ret.name, ret.project) \in DOMAIN disk.files
    /\ disk.files[GetTagsFile(ret.name, ret.project)] = Garbage
    /\ ret.result = Ok(<<>>)

MetadataUnparsable(d, name, project) ==
    /\ GetMetadataFile(name, project) \in DOMAIN d.files
    /\ d.files[GetMetadataFile(name, project)].kind \notin {"metadata", "legacy"}

(* C17: when a prompt's metadata document exists and fails to parse, every *)
(* operation that loads it raises MetadataCorrupted and none treats the    *)
(* prompt as new: a commit raises before it writes anything, so the        *)
(* metadata document and the content files stay as they were, and          *)
(* exists(name) is still true.                                             *)
C17_CorruptedRaises ==
    [][(ret'.op # "remove_prompts"
          /\ MetadataUnparsable(disk, ret'.name, ret'.project)) =>
          /\ ret'.op \in {"set_prompt", "get_prompt", "get_prompt_with_metadata",
                          "list_versions"} =>
                ret'.result = Raise("MetadataCorruptedError")
          /\ ret'.op = "commit_prompt" =>
                ret'.result \in {Raise("MetadataCorruptedError"),
                                 Raise("FileNotFoundError")}
          /\ (ret'.op = "cli_get" /\ ~(ret'.label # NoOption /\ ret'.version # NoOption)) =>
                ret'.result = Raise("MetadataCorruptedError")
          /\ ret'.op \in {"set_prompt", "commit_prompt"} =>
                /\ disk' = disk
                /\ PromptExists(disk', ret'.name, ret'.project)
      ]_vars

LegacyAt(d, name, project) ==
    /\ GetMetadataFile(name, project) \in DOMAIN d.files
    /\ d.files[GetMetadataFile(name, project)].kind = "legacy"

MaxNumber(entries) ==
    LET numbers == {entries[i].version : i \in 1..Len(entries)}
    IN  IF numbers = {} THEN 0 ELSE CHOOSE m \in numbers : \A n \in numbers : n <= m

(* C18: loading a legacy metadata document keeps every legacy version      *)
(* entry, sets current_version to the largest version among them (0 when   *)
(* there is none) and created_at to the first entry's timestamp; the next  *)
(* commit on the prompt gets the version largest + 1.                      *)
C18_Migration ==
    [][(ret'.op # "remove_prompts" /\ LegacyAt(disk, ret'.name, ret'.project)) =>
          LET entries == disk.files[GetMetadataFile(ret'.name, ret'.project)].versions
              metadata == LoadMetadata(disk, ret'.name, ret'.project, clock).value
          IN  /\ LoadMetadata(disk, ret'.name, ret'.project, clock).status = "ok"
              /\ Len(metadata.versions) = Len(entries)
              /\ \A i \in 1..Len(entries) :
                    /\ metadata.versions[i].version = entries[i].version
                    /\ metadata.versions[i].timestamp = Fromisoformat(entries[i].timestamp)
                    /\ metadata.versions[i].file_path = entries[i].file_path
                    /\ metadata.versions[i].source_file = entries[i].source_file
              /\ metadata.current_version = MaxNumber(entries)
              /\ entries # <<>> =>
                    metadata.created_at = Fromisoformat(entries[1].timestamp)
              /\ (ret'.op \in {"set_prompt", "commit_prompt"} /\ ret'.result.status = "ok") =>
                    /\ ret'.result.value.version = MaxNumber(entries) + 1
                    /\ disk'.files[GetMetadataFile(ret'.name, ret'.project)].current_version
                           = MaxNumber(entries) + 1
                    /\ Len(disk'.files[GetMetadataFile(ret'.name, ret'.project)].versions)
                           = Len(entries) + 1
              /\ ret'.op = "get_prompt_with_metadata" /\ ret'.ref = Latest /\ entries # <<>> =>
                    /\ ret'.result.status = "ok"
                    /\ ret'.result.value.version_meta.version = entries[Len(entries)].version
      ]_vars

C18_Witness ==
    /\ ret.op = "set_prompt"
    /\ ret.result.status = "ok"
    /\ ret.result.value.version = 4
    /\ Len(StoredVersions(ret.name, ret.project)) = 3
    /\ StoredVersions(ret.name, ret.project)[2].version = 3
    /\ disk.files[GetMetadataFile(ret.name, ret.project)].created_at = Isoformat(0)
    /\ clock = 1

Position(p, step) ==
    LET hits == {i \in 1..Len(race.log) : race.log[i] = <<p, step>>}
    IN  IF hits = {} THEN 0 ELSE CHOOSE i \in hits : TRUE

Racing == DOMAIN race.proc = Procs

AllDone == \A p \in Procs : race.proc[p].pc = "done"

OpenStep(p) ==
    IF race.proc[p].call.op = "create_tag" THEN "open_tags" ELSE "open_metadata"

WriteStep(p) ==
    IF race.proc[p].call.op = "create_tag" THEN "write_tags" ELSE "write_metadata"

DocumentFile(p) ==
    IF race.proc[p].call.op = "create_tag"
    THEN GetTagsFile(race.proc[p].call.name, race.proc[p].call.project)
    ELSE GetMetadataFile(race.proc[p].call.name, race.proc[p].call.project)

(* Both processes read the document before either opened it for writing *)
BothReadFirst ==
    \A p \in Procs, q \in Procs :
        /\ Position(p, "load") > 0
        /\ Position(q, OpenStep(q)) > 0
        /\ Position(p, "load") < Position(q, OpenStep(q))

LastSaver ==
    CHOOSE p \in Procs :
        \A q \in Procs : Position(q, WriteStep(q)) <= Position(p, WriteStep(p))

(* C19: when two processes run a read-modify-write on one document         *)
(* (two commits on a prompt's metadata, or two create_tag calls for        *)
(* different tag names) and both read before either writes, then after     *)
(* both have finished both calls have returned successfully, the document  *)
(* is exactly the one written by the process that saved last, the other    *)
(* process's tag is not in it, or it holds one new version record, the     *)
(* last saver's, and for commits both calls returned the same version      *)
(* number.                                                                 *)
C19_LastWriterWins ==
    (Racing /\ AllDone /\ BothReadFirst) =>
        LET w == LastSaver
            o == CHOOSE q \in Procs : q # w
        IN  /\ race.proc[w].result.status = "ok"
            /\ race.proc[o].result.status = "ok"
            /\ disk.files[DocumentFile(w)] = race.proc[w].local.doc
            /\ race.proc[w].call.op = "create_tag" =>
                  race.proc[o].local.tag
                      \notin {ParseTag(StoredTags(disk, SeedName, NoProject)[t]) :
                                 t \in DOMAIN StoredTags(disk, SeedName, NoProject)}
            /\ race.proc[w].call.op # "create_tag" =>
                  /\ race.proc[w].result.value.version = race.proc[o].result.value.version
                  /\ Len(StoredVersions(SeedName, NoProject)) = Len(TwoVersions) + 1
                  /\ StoredVersions(SeedName, NoProject)[Len(TwoVersions) + 1]
                         = race.proc[w].local.doc.versions[Len(TwoVersions) + 1]

(* C21: a failure of the token counter never aborts a commit: the commit   *)
(* returns normally, the content file of the new version holds the         *)
(* content, the metadata on disk has one more record, whose token count is *)
(* the word-count estimate int(words * 1.3), and current_version is one    *)
(* higher than before.                                                     *)
C21_CounterFailure ==
    [][(/\ ret'.op \in {"set_prompt", "commit_prompt"}
        /\ ret'.estimate.status = "raise"
        /\ ret'.result # Raise("FileNotFoundError")) =>
          LET before == LoadMetadata(disk, ret'.name, ret'.project, clock).value
              file == GetMetadataFile(ret'.name, ret'.project)
              version == before.current_version + 1
          IN  /\ ret'.result.status = "ok"
              /\ ret'.result.value.version = version
              /\ file \in DOMAIN disk'.files
              /\ disk'.files[file].kind = "metadata"
              /\ disk'.files[file].current_version = version
              /\ Len(disk'.files[file].versions) = Len(before.versions) + 1
              /\ disk'.files[file].versions[Len(before.versions) + 1].version = version
              /\ disk'.files[file].versions[Len(before.versions) + 1].token_count
                     = (13 * CountWords(ret'.content, FALSE)) \div 10
              /\ disk'.files[ret'.result.value.file_path]
                     = [kind |-> "text", data |-> WriteText(ret'.content)]
              /\ GetPromptWithMetadata(disk', ret'.name, Str(version), ret'.project, clock')
                     .value.version_meta.token_count
                     = (13 * CountWords(ret'.content, FALSE)) \div 10
      ]_vars

C21_Witness ==
    /\ ret.op = "commit_prompt"
    /\ ret.estimate = Raise("UnknownModelError")
    /\ ret.result.status = "ok"
    /\ ret.result.value.version = 3
    /\ StoredCurrent(ret.name, ret.project) = 3
    /\ StoredVersions(ret.name, ret.project)[3].token_count = 1
    /\ StoredVersions(ret.name, ret.project)[2].token_count = 1

(* What the store holds for the arguments of a get_prompt call: the        *)
(* version they name and its content as the client returns it.             *)
NamedVersion(d, name, label, version) ==
    IF label # NoOption THEN StoredTags(d, name, NoProject)[label].version
    ELSE IF version # <<>> THEN version[1]
    ELSE d.files[GetMetadataFile(name, NoProject)].current_version

Resolvable(d, name, label, version) ==
    /\ GetMetadataFile(name, NoProject) \in DOMAIN d.files
    /\ label # NoOption => label \in DOMAIN StoredTags(d, name, NoProject)
    /\ VersionFile(name, NoProject, NamedVersion(d, name, label, version))
           \in DOMAIN d.files

StoreContent(d, name, label, version, variables) ==
    LET text == ReadText(d.files[VersionFile(name, NoProject,
                                    NamedVersion(d, name, label, version))].data)
    IN  IF variables = NoVariables THEN text ELSE Render(text, variables).value

Unexpired(entry, now) == now <= entry.cached_at + entry.ttl_seconds

CachedCall == ret'.op = "sdk_get_prompt" /\ ret'.use_cache /\ ret'.result # Raise("ValueError")

(* C22: the client's cache is keyed by (name, label-or-version,            *)
(* variables) and entries live for the TTL: calls that differ in one of    *)
(* the three have different keys and a call leaves the entries of other    *)
(* keys alone; with caching on, a call whose key has an unexpired entry    *)
(* returns the entry's content and leaves the cache as it is; a call whose *)
(* key has an expired entry does not return it: the entry is dropped, the  *)
(* result is what the store holds, and when the read succeeds a new entry  *)
(* with that content and the new time is stored.                           *)
C22_TtlCache ==
    [][/\ \A a \in ClientCalls, b \in ClientCalls :
            CacheKey(a[1], a[2], a[3], a[4]) = CacheKey(b[1], b[2], b[3], b[4])
                => <<a[1], a[2], a[3], a[4]>> = <<b[1], b[2], b[3], b[4]>>
       /\ CachedCall =>
            /\ \A k \in (DOMAIN client.cache) \ {ret'.key} :
                  k \in DOMAIN client'.cache /\ client'.cache[k] = client.cache[k]
            /\ DOMAIN client'.cache \subseteq (DOMAIN client.cache) \cup {ret'.key}
       /\ (CachedCall /\ ret'.key \in DOMAIN client.cache) =>
            LET entry == client.cache[ret'.key]
            IN  IF Unexpired(entry, ret'.checked)
                THEN /\ ret'.result = Ok(entry.content)
                     /\ client'.cache = client.cache
                ELSE /\ ret'.result.status = "ok" <=>
                            Resolvable(disk, ret'.name, ret'.label, ret'.version)
                     /\ ret'.result.status = "ok" =>
                          /\ ret'.result.value = StoreContent(disk, ret'.name, ret'.label,
                                                               ret'.version, ret'.variables)
                          /\ client'.cache[ret'.key]
                                 = [content |-> ret'.result.value,
                                    cached_at |-> client'.now,
                                    ttl_seconds |-> client.cache_ttl]
                          /\ client'.now >= ret'.checked
                     /\ ret'.result.status # "ok" => ret'.key \notin DOMAIN client'.cache
      ]_vars

StoppedRefs == VersionRefs \cup {<<"0">>, <<"4">>, Staging}

(* C23: when a commit stops after it wrote the content file and before it  *)
(* saved the metadata, the metadata document is as it was (absent if it    *)
(* was absent), get and getWithRecord answer every ref as they did before  *)
(* the commit started, and the next commit on that prompt gets the version *)
(* number the stopped one had taken and its content is all the file        *)
(* holds afterwards.                                                       *)
C23_OrphanHarmless ==
    [][/\ ret'.op = "stopped_commit" =>
            LET file == GetMetadataFile(ret'.name, ret'.project)
            IN  /\ file \in DOMAIN disk'.files <=> file \in DOMAIN disk.files
                /\ file \in DOMAIN disk.files => disk'.files[file] = disk.files[file]
                /\ disk'.files[ret'.result.value.file_path].data = WriteText(ret'.content)
                /\ \A l \in Locations, ref \in StoppedRefs :
                      /\ GetPrompt(disk', l[1], ref, l[2], clock)
                             = GetPrompt(disk, l[1], ref, l[2], clock)
                      /\ GetPromptWithMetadata(disk', l[1], ref, l[2], clock)
                             = GetPromptWithMetadata(disk, l[1], ref, l[2], clock)
       /\ (/\ ret.op = "stopped_commit"
           /\ ret'.op \in {"set_prompt", "commit_prompt"}
           /\ ret'.name = ret.name
           /\ ret'.project = ret.project
           /\ ret'.result # Raise("FileNotFoundError")) =>
            /\ ret'.result.status = "ok"
            /\ ret'.result.value.version = ret.result.value.version
            /\ ret'.result.value.file_path = ret.result.value.file_path
            /\ disk'.files[ret.result.value.file_path]
                   = [kind |-> "text", data |-> WriteText(ret'.content)]
            /\ GetPrompt(disk', ret'.name, Str(ret'.result.value.version), ret'.project,
                         clock') = Ok(ReadText(WriteText(ret'.content)))
      ]_vars

C23_Witness ==
    /\ ret.op = "stopped_commit"
    /\ ret.result.value.version = 3
    /\ StoredCurrent(ret.name, ret.project) = 2
    /\ ret.result.value.file_path \in DOMAIN disk.files
    /\ disk.files[ret.result.value.file_path].data = <<"a", CR>>
    /\ GetPrompt(disk, ret.name, <<"3">>, ret.project, clock) = None

(* C24: under any interleaving of two commits on one (name, project), a    *)
(* version record in the persisted metadata goes with the content of the   *)
(* commit that produced the record: here at the least once both commits    *)
(* have returned, the content file of the new version holds the content    *)
(* passed to the commit whose record the metadata holds, and get returns   *)
(* that content.                                                           *)
C24_RecordOwnsContent ==
    (/\ Racing
     /\ AllDone
     /\ \A p \in Procs : race.proc[p].call.op \in {"set_prompt", "commit_prompt"}
     /\ disk.files[GetMetadataFile(SeedName, NoProject)].kind = "metadata") =>
        \A p \in Procs :
            race.proc[p].result.status = "ok" =>
                LET versions == StoredVersions(SeedName, NoProject)
                    record == race.proc[p].local.doc.versions[race.proc[p].local.version]
                IN  (\E i \in 1..Len(versions) : versions[i] = record) =>
                      /\ disk.files[record.file_path]
                             = [kind |-> "text",
                                data |-> WriteText(race.proc[p].call.content)]
                      /\ GetPrompt(disk, SeedName, Str(record.version), NoProject, clock)
                             = Ok(ReadText(WriteText(race.proc[p].call.content)))

(* C25: when remove([name]) and create_tag on the same prompt overlap and  *)
(* the remove has returned name -> true, the prompt is gone once both      *)
(* calls have finished: exists(name) is false and the prompt has no tag    *)
(* document, whatever the tag call returned.                               *)
C25_RemoveStaysRemoved ==
    (/\ Racing /\ AllDone
     /\ race.proc[1].call.op = "remove_prompts"
     /\ race.proc[2].call.op = "create_tag"
     /\ race.proc[1].result = Ok([n \in {SeedName} |-> TRUE])) =>
        /\ ~PromptExists(disk, SeedName, NoProject)
        /\ GetTagsFile(SeedName, NoProject) \notin DOMAIN disk.files

(* The files and directories stored for prompt n of project pr. *)
StoredUnder(d, n, pr) ==
    [dirs |-> {p \in d.dirs : IsPrefix(GetPromptDir(n, pr), p)},
     files |-> [p \in {q \in DOMAIN d.files : IsPrefix(GetPromptDir(n, pr), q)} |->
                   d.files[p]]]

(* C26: remove and create_tag addressed to a name with no project leave    *)
(* every prompt, version and tag of every project as it was, and after     *)
(* any step exists(n) with no project is true only for a prompt that was   *)
(* committed with no project; the name may equal the name of a project.    *)
C26_NoProjectFrame ==
    [][/\ (ret'.op \in {"remove_prompts", "create_tag"} /\ ret'.project = NoProject) =>
             \A n \in Names, pr \in Projects \ {NoProject} :
                 StoredUnder(disk', n, pr) = StoredUnder(disk, n, pr)
       /\ \A n \in Names :
             PromptExists(disk', n, NoProject) => committed'[<<n, NoProject>>] # <<>>]_vars

C28_RemoveResults ==
    [][ret'.op = "remove_prompts" =>
          \A i \in 1..Len(ret'.names) :
              ret'.result.value[ret'.names[i]]
                  = (/\ PromptExists(disk, ret'.names[i], ret'.project)
                     /\ ~PromptExists(disk', ret'.names[i], ret'.project))]_vars

(* The arguments of the call just made pass the check of label against     *)
(* version.                                                                *)
ValidCall == ret'.op = "sdk_get_prompt" /\ (ret'.label = NoOption \/ ret'.version \in {<<>>, <<0>>})

(* C29: while the entry of a key is unexpired, get_prompt with caching on  *)
(* returns the entry's content whatever commits, tag updates and removes   *)
(* have done to the store since; the call returns what the store holds     *)
(* now only when the entry has expired, the cache was cleared and holds no *)
(* entry for the key, or use_cache is false; a call that fails adds no     *)
(* entry; clear_cache empties the cache.                                   *)
C29_StaleUntilExpiry ==
    [][/\ ValidCall =>
            LET fresh == /\ ret'.use_cache
                         /\ ret'.key \in DOMAIN client.cache
                         /\ Unexpired(client.cache[ret'.key], ret'.checked)
            IN  /\ fresh => ret'.result = Ok(client.cache[ret'.key].content)
                /\ ~fresh =>
                      /\ ret'.result.status = "ok" <=>
                             Resolvable(disk, ret'.name, ret'.label, ret'.version)
                      /\ ret'.result.status = "ok" =>
                             ret'.result.value = StoreContent(disk, ret'.name, ret'.label,
                                                              ret'.version, ret'.variables)
                /\ ret'.result.status = "raise" =>
                      \A k \in DOMAIN client'.cache :
                          k \in DOMAIN client.cache /\ client'.cache[k] = client.cache[k]
       /\ ret'.op = "clear_cache" => client'.cache = <<>>]_vars

(* A call answered from an unexpired entry after the store has changed:    *)
(* the prompt was removed, or the key now names other content.             *)
C29_Witness ==
    /\ ret.op = "sdk_get_prompt"
    /\ ret.use_cache
    /\ ret.found # <<>>
    /\ Unexpired(ret.found[1], ret.checked)
    /\ ret.result = Ok(ret.found[1].content)
    /\ nops > 0
    /\ Resolvable(disk, ret.name, ret.label, ret.version) =>
          StoreContent(disk, ret.name, ret.label, ret.version, ret.variables)
              # ret.result.value

(* C30: once commit and set without --project have stored two versions of *)
(* a prompt, diff on that prompt with refs "1" and "2", "1" and "latest",  *)
(* or two tags stored for it, finds the prompt under the identity the      *)
(* versions were stored under and hands their two contents to the diff.    *)
C30_DiffSameIdentity ==
    (/\ ret.op = "cli_diff"
     /\ Len(committed[<<ret.name, DefaultProject>>]) >= 2
     /\ committed[<<ret.name, NoProject>>] = <<>>
     /\ \/ <<ret.ref_a, ret.ref_b>> \in {<<<<"1">>, <<"2">>>>, <<<<"1">>, Latest>>}
        \/ {ret.ref_a, ret.ref_b} \subseteq
               {Prod, Staging} \cap DOMAIN StoredTags(disk, ret.name, DefaultProject)) =>
        LET stored(ref) ==
                GetPromptWithMetadata(disk, ret.name,
                    Str(ResolveVersion(disk, ret.name, ref,
                                       Len(committed[<<ret.name, DefaultProject>>]),
                                       DefaultProject).value),
                    DefaultProject, clock).value.content
        IN  ret.result = Ok(<<stored(ret.ref_a), stored(ret.ref_b)>>)

====
